---- MODULE Spec2Model ----
(***************************************************************************)
(* Edge-side decision and coordination subsystem of the speculative        *)
(* decoding router: HistoryTracker, HardConstraintChecker,                 *)
(* MultiObjectiveScorer, ExecutionPlanner, AdaptiveThresholdCalculator,    *)
(* F1_DecisionModule and EdgeServer.process_inference.                     *)
(*                                                                         *)
(* Number representation.  Python floats are modelled in fixed point:      *)
(*   - usages (cpu, gpu) in whole percent, memory in MB, times in ms;      *)
(*   - rates, qualities, thresholds and component scores in units of       *)
(*     1/SCALE (0.80 is 8000);                                             *)
(*   - scoring weights in percent, so a total score is in 1/(100*SCALE).   *)
(* Divisions truncate.                                                     *)
(***************************************************************************)
EXTENDS Integers, Sequences, FiniteSets, TLC

VARIABLES
    history,                      \* HistoryTracker.history (deque, maxlen = max_history_size)
    strategy_stats,               \* HistoryTracker._strategy_stats
    added,                        \* every record ever passed to add_record, in call order
    scoring_weights,              \* MultiObjectiveScorer.w_latency / w_cost / w_quality
    config_confidence_threshold,  \* F1 config['confidence_threshold']
    config_draft_max_tokens,      \* F1 config['draft_max_tokens']
    current_confidence_threshold, \* AdaptiveThresholdCalculator.current_confidence_threshold
    execution_count,              \* AdaptiveThresholdCalculator._execution_count
    updates_applied,              \* number of _apply_adaptive_updates runs so far
    call,                         \* the decide call in progress / last completed
    inference,                    \* the process_inference request in progress
    requests,                     \* the process_inference coroutines on the event loop
    hardware_adaptive,            \* ExecutionPlanner.gpu_mode_config / cpu_mode_config
    verification,                 \* the cloud's DraftVerifier.verify_draft call
    monitor,                      \* the StateMonitor objects and the last value they returned
    kv_cache                      \* the cloud's VLLMKVCache and the allocate_blocks call on it

vars == <<history, strategy_stats, added, scoring_weights,
          config_confidence_threshold, config_draft_max_tokens,
          current_confidence_threshold, execution_count, updates_applied,
          call, inference, requests, hardware_adaptive, verification, monitor,
          kv_cache>>

(***************************************************************************)
(* Generic helpers                                                         *)
(***************************************************************************)
SCALE == 100 * 100

Null == 0 - 1        \* Python None / JSON null in a numeric field

Max(a, b) == IF a >= b THEN a ELSE b
Min(a, b) == IF a <= b THEN a ELSE b

RECURSIVE SumSeq(_)
SumSeq(s) == IF s = <<>> THEN 0 ELSE Head(s) + SumSeq(Tail(s))

\* Python list slice s[-n:]
LastN(s, n) == IF Len(s) <= n THEN s ELSE SubSeq(s, Len(s) - n + 1, Len(s))

\* statistics.mean over a non-empty sequence of fixed-point numbers
Mean(s) == SumSeq(s) \div Len(s)

(***************************************************************************)
(* common/types.py                                                         *)
(***************************************************************************)
EDGE_ONLY            == "EDGE_ONLY"
CLOUD_DIRECT         == "CLOUD_DIRECT"
SPECULATIVE_STANDARD == "SPECULATIVE_STANDARD"
ADAPTIVE_CONFIDENCE  == "ADAPTIVE_CONFIDENCE"

ExecutionStrategy == {EDGE_ONLY, CLOUD_DIRECT, SPECULATIVE_STANDARD, ADAPTIVE_CONFIDENCE}

\* dataclass defaults of SystemStats used by the decision module on failure
DefaultSystemStats ==
    [cpu_usage |-> 50, memory_available_mb |-> 2000, gpu_usage |-> 0, device_type |-> "cpu"]

NoNetwork == [present |-> FALSE, rtt_ms |-> 0, is_weak_network |-> FALSE]

NoRequirements ==
    [present |-> FALSE, max_latency_ms |-> 0, min_quality_score |-> 0,
     priority |-> 0, privacy_level |-> 0]

(***************************************************************************)
(* edge/history_tracker.py                                                 *)
(***************************************************************************)
max_history_size == 5

DequeAppend_unbounded(dq, rec) == Append(dq, rec)
\* collections.deque(maxlen = max_history_size).append
DequeAppend(dq, rec) ==
    IF Len(dq) >= max_history_size THEN Append(Tail(dq), rec) ELSE Append(dq, rec)

\* strategy_list.append(record); pop(0) when longer than max_history_size
StrategyListAppend(lst, rec) ==
    LET grown == Append(lst, rec)
    IN  IF Len(grown) > max_history_size THEN Tail(grown) ELSE grown

\* HistoryTracker.add_record, as new values of (history, _strategy_stats)
AddRecordHistory(h, rec) == DequeAppend(h, rec)
AddRecordStats(st, rec) ==
    [st EXCEPT ![rec.strategy] = StrategyListAppend(st[rec.strategy], rec)]

get_records_by_strategy(st, strategy, n) == LastN(st[strategy], n)

IsSpeculative(strategy) == strategy \in {SPECULATIVE_STANDARD, ADAPTIVE_CONFIDENCE}

RECURSIVE SelectField(_, _)
SelectField(recs, f) ==
    IF recs = <<>> THEN <<>> ELSE <<Head(recs)[f]>> \o SelectField(Tail(recs), f)

\* a mutation: the recorded acceptance rates are never read
get_recent_acceptance_rate_default(st, strategy, n) == 8000

get_recent_acceptance_rate(st, strategy, n) ==
    LET records == get_records_by_strategy(st, strategy, n)
        valid   == SelectSeq(records, LAMBDA r : IsSpeculative(r.strategy))
    IN  IF records = <<>> THEN 8000
        ELSE IF valid = <<>> THEN 8000
        ELSE Mean(SelectField(valid, "acceptance_rate"))

get_avg_latency(st, strategy, n) ==
    LET records == get_records_by_strategy(st, strategy, n)
    IN  IF records = <<>> THEN 100 ELSE Mean(SelectField(records, "latency_ms"))

get_success_rate(st, strategy, n) ==
    LET records == get_records_by_strategy(st, strategy, n)
    IN  IF records = <<>> THEN SCALE
        ELSE (Len(SelectSeq(records, LAMBDA r : r.success)) * SCALE) \div Len(records)

EmptyStats == [s \in ExecutionStrategy |-> <<>>]

ExecutionRecord(strategy, acceptance_rate, latency_ms, edge_latency_ms, cloud_latency_ms, success) ==
    [strategy |-> strategy, acceptance_rate |-> acceptance_rate, latency_ms |-> latency_ms,
     edge_latency_ms |-> edge_latency_ms, cloud_latency_ms |-> cloud_latency_ms,
     success |-> success]

(***************************************************************************)
(* edge/decision_engine.py : HardConstraintChecker                         *)
(***************************************************************************)
cpu_overload_threshold     == 95
gpu_overload_threshold     == 85
memory_critical_mb         == 500
ultra_low_latency_ms       == 50
weak_network_rtt_threshold == 200

NoDecision == [kind |-> "none", strategy |-> "", reason |-> ""]
HardDecision(strategy, reason) == [kind |-> "hit", strategy |-> strategy, reason |-> reason]
Raised(what) == [kind |-> "raise", strategy |-> "", reason |-> what]

\* the conditions of the six rules, in the order check evaluates them
hardware_overload_inclusive(sys) ==
    IF sys.device_type = "gpu" THEN sys.gpu_usage >= gpu_overload_threshold
                               ELSE sys.cpu_usage >= cpu_overload_threshold
hardware_overload(sys) ==
    IF sys.device_type = "gpu" THEN sys.gpu_usage > gpu_overload_threshold
    ELSE sys.cpu_usage > cpu_overload_threshold
memory_pressure(sys)     == sys.memory_available_mb < memory_critical_mb
ultra_low_latency(req)   == req.max_latency_ms < ultra_low_latency_ms
confidential_above_two(req) == req.privacy_level > 2
confidential(req)        == req.privacy_level >= 2
weak_network_flag_and_rtt(net) ==
    net.present /\ net.is_weak_network /\ net.rtt_ms > weak_network_rtt_threshold
weak_network_flag(net)   == net.present /\ net.is_weak_network
weak_network_rtt(net)    == net.present /\ net.rtt_ms > weak_network_rtt_threshold
urgent_low_quality(req)  == req.priority >= 3 /\ req.min_quality_score < 7000

\* HardConstraintChecker.check; an attribute of a missing requirements object
\* (AttributeError) or a comparison with None (TypeError) raises at the line
\* that first touches it.
check(context) ==
    LET sys == context.system_state
        req == context.task_requirements
        net == context.network_state
    IN  IF hardware_overload(sys)
            THEN HardDecision(CLOUD_DIRECT,
                              IF sys.device_type = "gpu" THEN "gpu_overload" ELSE "cpu_overload")
        ELSE IF memory_pressure(sys)
            THEN HardDecision(CLOUD_DIRECT, "memory_critical")
        ELSE IF ~req.present
            THEN Raised("AttributeError")
        ELSE IF ultra_low_latency(req)
            THEN HardDecision(EDGE_ONLY, "ultra_low_latency")
        ELSE IF req.privacy_level = Null
            THEN Raised("TypeError")
        ELSE IF confidential(req)
            THEN HardDecision(EDGE_ONLY, "privacy")
        ELSE IF weak_network_flag(net)
            THEN HardDecision(EDGE_ONLY, "weak_network")
        ELSE IF weak_network_rtt(net)
            THEN HardDecision(EDGE_ONLY, "high_rtt")
        ELSE IF urgent_low_quality(req)
            THEN HardDecision(EDGE_ONLY, "urgent_low_quality")
        ELSE NoDecision

(***************************************************************************)
(* edge/decision_engine.py : MultiObjectiveScorer                          *)
(***************************************************************************)
ref_edge_latency_ms        == 30
ref_cloud_latency_ms       == 200
ref_speculative_latency_ms == 80

MinSamples   == 5      \* "enough history" threshold of the scorer and the calculator
RecentWindow == 20     \* n = 20 in every history query of the scorer and the calculator

StrategyOrder == <<EDGE_ONLY, CLOUD_DIRECT, SPECULATIVE_STANDARD, ADAPTIVE_CONFIDENCE>>

base_latency(strategy) ==
    CASE strategy = EDGE_ONLY            -> ref_edge_latency_ms
      [] strategy = CLOUD_DIRECT         -> ref_cloud_latency_ms
      [] strategy = SPECULATIVE_STANDARD -> ref_speculative_latency_ms
      [] strategy = ADAPTIVE_CONFIDENCE  -> (ref_speculative_latency_ms * 9) \div 10

\* The latency _score_latency compares with the SLO: historical mean when the
\* strategy has at least 5 of its last 20 records, else the configured
\* estimate; plus the RTT penalty when a network state is present.
projected_latency(strategy, context, st) ==
    LET enough == Len(get_records_by_strategy(st, strategy, RecentWindow)) >= MinSamples
        latency == IF enough THEN get_avg_latency(st, strategy, RecentWindow)
                   ELSE base_latency(strategy)
        net == context.network_state
    IN  IF ~net.present THEN latency
        ELSE IF strategy = CLOUD_DIRECT THEN latency + 2 * net.rtt_ms
        ELSE IF IsSpeculative(strategy) THEN latency + net.rtt_ms
        ELSE latency

_score_latency(strategy, context, st) ==
    LET latency == projected_latency(strategy, context, st)
        slo     == context.task_requirements.max_latency_ms
    IN  IF latency > slo THEN 0
        ELSE Max(0, SCALE - (latency * SCALE) \div slo)

_score_cost(strategy) ==
    CASE strategy = EDGE_ONLY            -> 10000
      [] strategy = SPECULATIVE_STANDARD -> 6000
      [] strategy = ADAPTIVE_CONFIDENCE  -> 7000
      [] strategy = CLOUD_DIRECT         -> 0

quality_map(strategy) ==
    CASE strategy = EDGE_ONLY            -> 7000
      [] strategy = CLOUD_DIRECT         -> 10000
      [] strategy = SPECULATIVE_STANDARD -> 9500
      [] strategy = ADAPTIVE_CONFIDENCE  -> 9200

_score_quality(strategy, context, st) ==
    LET enough       == Len(get_records_by_strategy(st, strategy, RecentWindow)) >= MinSamples
        success_rate == get_success_rate(st, strategy, RecentWindow)
        acceptance   == get_recent_acceptance_rate(st, strategy, RecentWindow)
        boost        == 8000 + (2 * acceptance) \div 10
        base         == quality_map(strategy)
        adjusted     == IF ~enough THEN base
                        ELSE IF IsSpeculative(strategy)
                             THEN (((base * success_rate) \div SCALE) * boost) \div SCALE
                        ELSE (base * success_rate) \div SCALE
    IN  IF context.task_requirements.min_quality_score > 9000
           /\ strategy \in {CLOUD_DIRECT, SPECULATIVE_STANDARD}
        THEN Min(SCALE, adjusted + 1000)
        ELSE adjusted

\* Total score in units of 1/(100*SCALE); w holds the weights in percent.
_calculate_score(strategy, context, st, w) ==
    LET latency_score == _score_latency(strategy, context, st)
        total == w.latency * latency_score
                 + w.cost * _score_cost(strategy)
                 + w.quality * _score_quality(strategy, context, st)
    IN  IF context.task_requirements.priority >= 2
        THEN total + 10 * latency_score
        ELSE total

score_strategies(context, st, w) ==
    [i \in 1..4 |-> [strategy |-> StrategyOrder[i],
                     score    |-> _calculate_score(StrategyOrder[i], context, st, w)]]

\* max(valid_strategies, key = score): the first element with the largest score
RECURSIVE FirstMax(_)
FirstMax(scored) ==
    IF Len(scored) = 1 THEN Head(scored)
    ELSE LET rest == FirstMax(Tail(scored))
         IN  IF Head(scored).score >= rest.score THEN Head(scored) ELSE rest

(***************************************************************************)
(* edge/execution_planner.py : ExecutionPlanner                            *)
(***************************************************************************)
gpu_edge_only_max_tokens       == 256
gpu_collaborative_draft_tokens == 96
cpu_edge_only_max_tokens       == 128
cpu_collaborative_draft_tokens == 48
default_draft_max_tokens       == 64      \* adjusted_params.get('draft_max_tokens', 64)
default_verify_timeout_ms      == 5000

NoPlan == [strategy |-> "", confidence_threshold |-> 0, draft_max_tokens |-> 0,
           verify_timeout_ms |-> 0, reason |-> "", score |-> 0]

\* config['hardware_adaptive'] when the configuration leaves it out
DefaultHardwareAdaptive ==
    [gpu_mode |-> [edge_only_max_tokens       |-> gpu_edge_only_max_tokens,
                   collaborative_draft_tokens |-> gpu_collaborative_draft_tokens],
     cpu_mode |-> [edge_only_max_tokens       |-> cpu_edge_only_max_tokens,
                   collaborative_draft_tokens |-> cpu_collaborative_draft_tokens]]

\* the hardware sizing of _adjust_params: the cap of the device mode for the
\* strategy (CLOUD_DIRECT has none: the plan's default stands)
hardware_cap(strategy, context) ==
    LET mode == IF context.system_state.device_type = "gpu"
                THEN hardware_adaptive.gpu_mode ELSE hardware_adaptive.cpu_mode
    IN  IF strategy = EDGE_ONLY THEN mode.edge_only_max_tokens
        ELSE IF IsSpeculative(strategy) THEN mode.collaborative_draft_tokens
        ELSE default_draft_max_tokens

\* variant: the 32-token clamp wins over the third of the cap, and the 75%
\* compression rounds up
adjusted_draft_max_tokens_clamped(strategy, context) ==
    LET slo == context.task_requirements.max_latency_ms
        hw  == hardware_cap(strategy, context)
    IN  IF ~IsSpeculative(strategy) THEN hw
        ELSE IF slo < 500 THEN Min(hw, 32)
        ELSE IF slo < 1000 THEN (hw * 75 + 99) \div 100
        ELSE hw

\* draft_max_tokens after the hardware sizing and the latency compression
adjusted_draft_max_tokens(strategy, context) ==
    LET slo == context.task_requirements.max_latency_ms
        hw  == hardware_cap(strategy, context)
    IN  IF ~IsSpeculative(strategy) THEN hw
        ELSE IF slo < 500 THEN Max(hw \div 3, Min(hw, 32))
        ELSE IF slo < 1000 THEN (hw * 75) \div 100
        ELSE hw

\* verify_timeout_ms after the load adjustment (0: the strategy has no such parameter)
adjusted_verify_timeout_ms(strategy, context) ==
    LET sys == context.system_state
    IN  IF ~IsSpeculative(strategy) THEN 0
        ELSE IF sys.device_type = "gpu" /\ sys.gpu_usage > 70
            THEN (default_verify_timeout_ms * 12) \div 10
        ELSE IF sys.device_type = "cpu" /\ sys.cpu_usage > 80
            THEN (default_verify_timeout_ms * 12) \div 10
        ELSE default_verify_timeout_ms

\* a mutation: the threshold follows the parity of the call counter
_calculate_confidence_threshold_by_call(strategy, context) ==
    8000 - (execution_count % 2) * 500

\* variant: the 0.85 that _adjust_params sets for a quality demand above 0.9
\* survives in the SPECULATIVE_STANDARD plan
_calculate_confidence_threshold_quality_raised(strategy, context) ==
    IF strategy = SPECULATIVE_STANDARD
        /\ context.task_requirements.min_quality_score > 9000
    THEN 8500 ELSE 8000

_calculate_confidence_threshold(strategy, context) ==
    LET req  == context.task_requirements
        q    == IF req.min_quality_score > 9000 THEN 7500 + 1000
                ELSE IF req.min_quality_score < 7000 THEN 7500 - 1000
                ELSE 7500
        base == IF req.priority >= 3 THEN q - 500 ELSE q
    IN  IF strategy = SPECULATIVE_STANDARD THEN 8000
        ELSE IF strategy = ADAPTIVE_CONFIDENCE THEN Max(5000, Min(9500, base))
        ELSE 8000

\* _adjust_params reads task_requirements.min_quality_score for every strategy:
\* a request without requirements raises AttributeError.
generate_plan_raises(strategy, context) == ~context.task_requirements.present

\* ExecutionPlanner.generate_plan (defined when it does not raise)
generate_plan(strategy, context, score, reason) ==
    [strategy             |-> strategy,
     confidence_threshold |-> IF IsSpeculative(strategy)
                                  THEN _calculate_confidence_threshold(strategy, context)
                                  ELSE 8000,
     draft_max_tokens     |-> adjusted_draft_max_tokens(strategy, context),
     verify_timeout_ms    |-> adjusted_verify_timeout_ms(strategy, context),
     reason               |-> IF reason # "" THEN reason ELSE "Score",
     score                |-> score]

(***************************************************************************)
(* edge/f1_decision.py : F1_DecisionModule                                 *)
(***************************************************************************)
DecisionContext(request, system_state, network_state) ==
    [request |-> request, system_state |-> system_state,
     task_requirements |-> request.requirements, network_state |-> network_state]

Returned(path, plan) == [outcome |-> "returned", path |-> path, plan |-> plan]
RaisedToCaller(path) == [outcome |-> "raised",   path |-> path, plan |-> NoPlan]

fallback_strategy(context) ==
    IF context.system_state.cpu_usage < 90 THEN SPECULATIVE_STANDARD ELSE CLOUD_DIRECT

\* _fallback_plan: the planner's exception is not caught here
_fallback_plan(context, path, reason) ==
    IF generate_plan_raises(fallback_strategy(context), context)
    THEN RaisedToCaller(path)
    ELSE Returned(path, generate_plan(fallback_strategy(context), context, 0, reason))

\* the except branch of decide_async: fallback on default system stats, no network
exception_fallback(request) ==
    _fallback_plan(DecisionContext(request, DefaultSystemStats, NoNetwork),
                   "exception", "exception_fallback")

\* _build_context_async: a monitor failure is replaced by the default stats
\* (sampled = FALSE), a disabled probe leaves network_state = None
_build_context(request, sampled, system_state, network_state) ==
    DecisionContext(request,
                    IF sampled THEN system_state ELSE DefaultSystemStats,
                    network_state)

\* variant: the best-scoring strategy is taken whenever one is valid
decide_body_scored_first(context, st, w) ==
    LET hard   == check(context)
        scored == score_strategies(context, st, w)
        valid  == SelectSeq(scored, LAMBDA x : x.score > 0)
        best   == FirstMax(valid)
    IN  IF hard.kind = "raise" THEN exception_fallback(context.request)
        ELSE IF valid # <<>> /\ ~generate_plan_raises(best.strategy, context)
            THEN Returned("scored", generate_plan(best.strategy, context, best.score, ""))
        ELSE IF hard.kind = "hit" THEN
            (IF generate_plan_raises(hard.strategy, context)
             THEN exception_fallback(context.request)
             ELSE Returned("hard", generate_plan(hard.strategy, context, 0, hard.reason)))
        ELSE _fallback_plan(context, "all_zero", "all_scores_zero")

\* decide_async after the adaptive step: the body of the try block and its handler
decide_body(context, st, w) ==
    LET hard   == check(context)
        scored == score_strategies(context, st, w)
        valid  == SelectSeq(scored, LAMBDA x : x.score > 0)
        best   == FirstMax(valid)
    IN  IF hard.kind = "raise" THEN exception_fallback(context.request)
        ELSE IF hard.kind = "hit" THEN
            (IF generate_plan_raises(hard.strategy, context)
             THEN exception_fallback(context.request)
             ELSE Returned("hard", generate_plan(hard.strategy, context, 0, hard.reason)))
        ELSE IF valid = <<>> THEN _fallback_plan(context, "all_zero", "all_scores_zero")
        ELSE Returned("scored", generate_plan(best.strategy, context, best.score, ""))

\* decide: loop.run_until_complete(decide_async(...)).  A loop that is already
\* running refuses run_until_complete with RuntimeError unless it is re-entrant.
decide(loop, context, st, w) ==
    IF loop = "running" THEN RaisedToCaller("run_until_complete")
    ELSE decide_body(context, st, w)

(***************************************************************************)
(* edge/adaptive_threshold.py : AdaptiveThresholdCalculator                *)
(***************************************************************************)
target_acceptance_min == 8000
target_acceptance_max == 9000
threshold_step        == 500
smoothing_factor      == 1000
threshold_min         == 5000
threshold_max         == 9500
update_interval       == 10
default_latency_slo   == 150       \* config.get('default_latency_slo', 150)
initial_draft_max_tokens == 64     \* config.get('draft_max_tokens', 64)
initial_confidence_threshold == 8000   \* config.get('confidence_threshold', 0.80)

\* should_update, evaluated on the incremented counter
should_update(count) == count % update_interval = 0

clamp_threshold_missing(x) == x
\* the clamp of calculate_adaptive_confidence_threshold
clamp_threshold(x) == Max(threshold_min, Min(threshold_max, x))

\* variant: the threshold follows the acceptance rate
calculate_adaptive_confidence_threshold_reversed(st, current_threshold) ==
    LET recent_ar  == get_recent_acceptance_rate(st, SPECULATIVE_STANDARD, RecentWindow)
        samples    == Len(get_records_by_strategy(st, SPECULATIVE_STANDARD, RecentWindow))
        adjustment == IF recent_ar > target_acceptance_max
                          THEN (threshold_step * (recent_ar - target_acceptance_max)) \div 1000
                      ELSE IF recent_ar < target_acceptance_min
                          THEN 0 - (threshold_step * (target_acceptance_min - recent_ar)) \div 1000
                      ELSE 0
        smoothed   == (current_threshold * (SCALE - smoothing_factor)
                       + (current_threshold + adjustment) * smoothing_factor) \div SCALE
    IN  IF samples < MinSamples THEN current_threshold
        ELSE clamp_threshold(smoothed)

calculate_adaptive_confidence_threshold(st, current_threshold) ==
    LET recent_ar  == get_recent_acceptance_rate(st, SPECULATIVE_STANDARD, RecentWindow)
        samples    == Len(get_records_by_strategy(st, SPECULATIVE_STANDARD, RecentWindow))
        adjustment == IF recent_ar > target_acceptance_max
                          THEN 0 - (threshold_step * (recent_ar - target_acceptance_max)) \div 1000
                      ELSE IF recent_ar < target_acceptance_min
                          THEN (threshold_step * (target_acceptance_min - recent_ar)) \div 1000
                      ELSE 0
        smoothed   == (current_threshold * (SCALE - smoothing_factor)
                       + (current_threshold + adjustment) * smoothing_factor) \div SCALE
    IN  IF samples < MinSamples THEN current_threshold
        ELSE clamp_threshold(smoothed)

\* variant: no floor and no cap
calculate_adaptive_draft_length_unbounded(st, current_length, task_latency_requirement) ==
    LET recent_latency == get_avg_latency(st, SPECULATIVE_STANDARD, RecentWindow)
        latency_margin == task_latency_requirement - recent_latency
        latency_ratio  == (latency_margin * SCALE) \div task_latency_requirement
    IN  IF latency_ratio < 1000 THEN current_length - 8
        ELSE IF latency_ratio > 5000 THEN current_length + 8
        ELSE current_length

calculate_adaptive_draft_length(st, current_length, task_latency_requirement) ==
    LET recent_latency == get_avg_latency(st, SPECULATIVE_STANDARD, RecentWindow)
        latency_margin == task_latency_requirement - recent_latency
        latency_ratio  == (latency_margin * SCALE) \div task_latency_requirement
    IN  IF latency_ratio < 1000 THEN Max(32, current_length - 8)
        ELSE IF latency_ratio > 5000 THEN Min(128, current_length + 8)
        ELSE current_length

\* _apply_adaptive_updates: the (confidence_threshold, draft_max_tokens) it
\* writes back into the F1 config
apply_confidence_threshold(st, conf) == calculate_adaptive_confidence_threshold(st, conf)
apply_draft_max_tokens(st, draft)    ==
    calculate_adaptive_draft_length(st, draft, default_latency_slo)

(***************************************************************************)
(* cloud/draft_verifier.py : DraftVerifier                                 *)
(* Texts and tokens are strings; a request built by the VerifyRequest      *)
(* dataclass has no max_verify_tokens attribute (Null) unless the caller   *)
(* sets one.                                                               *)
(***************************************************************************)
\* ''.join(tokens)
RECURSIVE Join(_)
Join(tokens) == IF tokens = <<>> THEN "" ELSE Head(tokens) \o Join(Tail(tokens))

\* the mock large model accepts the draft token at each position when a
\* uniform draw from (0.6, 0.98) exceeds acceptance_threshold: either outcome
\* at each position, so the draft's first accepted_prefix tokens are accepted
\* and the next one, if any, is rejected and replaced; the list is then filled
\* up to max_tokens with cloud tokens
_verify_tokens_async(draft_tokens, max_tokens, accepted_prefix) ==
    LET rejected  == accepted_prefix < Len(draft_tokens)
        checked   == SubSeq(draft_tokens, 1, accepted_prefix) \o
                     (IF rejected
                      THEN <<"[CORRECTED_" \o ToString(accepted_prefix) \o "]">>
                      ELSE <<>>)
        remaining == max_tokens - Len(checked)
    IN  [verified_tokens     |-> checked \o
                                 [j \in 1..Max(remaining, 0) |->
                                     "_cloud_token_" \o ToString(j - 1) \o "_"],
         corrected_positions |-> IF rejected THEN <<accepted_prefix>> ELSE <<>>]

NoVerifyResponse ==
    [outcome |-> "none", verified_tokens |-> <<>>, accepted_count |-> 0, total_count |-> 0,
     acceptance_rate |-> 0, corrected_positions |-> <<>>, final_text |-> ""]

verify_draft(request, accepted_prefix) ==
    IF request.max_verify_tokens = Null
    THEN [NoVerifyResponse EXCEPT !.outcome = "raised"]
    ELSE LET v == _verify_tokens_async(request.draft_tokens, request.max_verify_tokens,
                                       accepted_prefix)
             accepted_count == Len(request.draft_tokens) - Len(v.corrected_positions)
             total_count    == Len(request.draft_tokens)
         IN  [outcome             |-> "returned",
              verified_tokens     |-> v.verified_tokens,
              accepted_count      |-> accepted_count,
              total_count         |-> total_count,
              acceptance_rate     |-> IF total_count > 0
                                      THEN (accepted_count * SCALE) \div total_count
                                      ELSE 0,
              corrected_positions |-> v.corrected_positions,
              final_text          |-> request.prompt \o Join(v.verified_tokens)]

IdleVerification ==
    [pc |-> "idle",
     request |-> [prompt |-> "", draft_tokens |-> <<>>, max_verify_tokens |-> Null],
     accepted_prefix |-> 0, response |-> NoVerifyResponse]

(***************************************************************************)
(* edge/monitor.py and edge/state_monitor.py : StateMonitor                *)
(* RTT in whole ms, bandwidth in whole Mbps, packet_loss_rate in 1/SCALE.  *)
(* time.time() enters the code only through the differences                *)
(* now - _last_network_probe_time and now - _last_update_time: the model    *)
(* keeps these ages in ms, saturated at the TTL they are compared with.     *)
(***************************************************************************)
network_cache_ttl == 2000
state_cache_ttl_ms == 100
weak_network_threshold == 150

NetworkStats(rtt_ms, bandwidth_mbps, packet_loss_rate, is_weak_network) ==
    [present |-> TRUE, rtt_ms |-> rtt_ms, bandwidth_mbps |-> bandwidth_mbps,
     packet_loss_rate |-> packet_loss_rate, is_weak_network |-> is_weak_network]

NoNetworkStats ==
    [present |-> FALSE, rtt_ms |-> 0, bandwidth_mbps |-> 0,
     packet_loss_rate |-> 0, is_weak_network |-> FALSE]

\* the value a monitor call handed back: fresh tells whether psutil or the
\* cloud was read during the call (outcome: how the HTTP probe ended),
\* within_ttl whether an earlier reading had been taken less than the TTL
\* before the call
NoReturn ==
    [method |-> "none", force |-> FALSE, within_ttl |-> FALSE, fresh |-> FALSE,
     outcome |-> "none",
     system |-> DefaultSystemStats, network |-> NoNetworkStats]

\* monitor.StateMonitor.__init__ and state_monitor.StateMonitor.__init__;
\* stats_age is the time since get_system_stats last read psutil.  The deque
\* _rtt_history, appended to by each probe and read nowhere, is left out.
InitialMonitor ==
    [simulation_mode |-> FALSE, sim_net_stats |-> NoNetworkStats, sim_is_weak_passed |-> FALSE,
     last_network_stats |-> NoNetworkStats, probe_age |-> network_cache_ttl,
     probe_failure_count |-> 0,
     stats_sampled |-> FALSE, stats_age |-> state_cache_ttl_ms,
     last_system_present |-> FALSE, last_system_state |-> DefaultSystemStats,
     update_age |-> state_cache_ttl_ms,
     returned |-> NoReturn]

\* outcome.kind is "ok" (the HEAD request answered after outcome.rtt_ms),
\* "timeout" (asyncio.TimeoutError) or "error" (any other exception)
_real_probe(failure_count, outcome) ==
    IF outcome.kind = "ok"
    THEN LET packet_loss_rate == Min(5000, (0 * SCALE) \div 10)
         IN  [probe_failure_count |-> 0,
              stats |-> NetworkStats(outcome.rtt_ms, 50, packet_loss_rate,
                                     outcome.rtt_ms > weak_network_threshold
                                         \/ packet_loss_rate > 1000)]
    ELSE IF outcome.kind = "timeout"
    THEN [probe_failure_count |-> failure_count + 1,
          stats |-> NetworkStats(9999, 0, SCALE, TRUE)]
    ELSE [probe_failure_count |-> failure_count + 1,
          stats |-> NetworkStats(999, 1, Min(5000, ((failure_count + 1) * SCALE) \div 10),
                                 TRUE)]

(***************************************************************************)
(* cloud/kv_cache.py : VLLMKVCache                                         *)
(* block_table is the set of its entries; now is time.time() as a call     *)
(* count; lock is the threading.Lock, which the thread that holds it       *)
(* cannot take a second time.                                              *)
(***************************************************************************)
max_blocks == 3

\* VLLMKVCache.__init__; call is the allocate_blocks call in progress or last
\* completed
InitialKVCache ==
    [block_table |-> {}, next_block_id |-> 0, now |-> 0, lock |-> "free", evictions |-> 0,
     call |-> [state |-> "none", num_blocks |-> 0, prompt_hash |-> "",
               allocated_blocks |-> <<>>]]

\* _evict_blocks: `with self.lock` waits while the lock is held, by whatever
\* thread; once inside, the num_blocks entries of least last_access go (sorted
\* is stable, so among equal times in insertion order)
_evict_blocks(cache, num_blocks) ==
    LET older(c, b) == \/ c.last_access < b.last_access
                       \/ c.last_access = b.last_access /\ c.block_id < b.block_id
        blocks_to_remove ==
            { b \in cache.block_table :
                Cardinality({ c \in cache.block_table : older(c, b) }) < num_blocks }
    IN  IF cache.lock # "free"
        THEN [cache EXCEPT !.call.state = "waiting_for_lock"]
        ELSE [cache EXCEPT !.block_table = @ \ blocks_to_remove,
                           !.evictions = @ + Cardinality(blocks_to_remove)]

(***************************************************************************)
(* Bounds and input domains                                                *)
(***************************************************************************)
MaxDecisions   == 2     \* decide calls explored per behaviour
PriorDecisions == 8     \* decide calls already made when a behaviour of Spec starts

\* SystemStats samples: CPU devices around the overload (95), fallback (90) and
\* memory (500) thresholds, GPU devices around the GPU threshold (85)
SystemSamples ==
    [cpu_usage : {50, 92, 95, 98}, memory_available_mb : {400, 500, 2000},
     gpu_usage : {0}, device_type : {"cpu"}]
    \cup [cpu_usage : {50, 98}, memory_available_mb : {2000},
          gpu_usage : {50, 85, 90}, device_type : {"gpu"}]

\* NetworkStats samples; NoNetwork is a disabled probe (network_state = None)
NetworkSamples ==
    {NoNetwork}
    \cup [present : {TRUE}, rtt_ms : {15, 20, 200, 250}, is_weak_network : {FALSE}]
    \cup [present : {TRUE}, rtt_ms : {20, 999}, is_weak_network : {TRUE}]

\* TaskRequirements; privacy_level = Null is a JSON null in that field
RequirementSamples ==
    [present : {TRUE}, max_latency_ms : {40, 50, 100, 3000},
     min_quality_score : {5000, 8000, 9500}, priority : {1, 2, 5},
     privacy_level : {0, 2, Null}]
    \cup {NoRequirements}

RequestSamples == [requirements : RequirementSamples]

NoRequest == [requirements |-> NoRequirements]

DefaultWeights     == [latency |-> 40, cost |-> 30, quality |-> 30]
LatencyOnlyWeights == [latency |-> 100, cost |-> 0, quality |-> 0]
WeightConfigs      == {DefaultWeights, LatencyOnlyWeights}

\* the tracker after add_record of every record of recs, in order
RECURSIVE Replay(_)
Replay(recs) ==
    IF recs = <<>> THEN [history |-> <<>>, stats |-> EmptyStats]
    ELSE LET before == Replay(SubSeq(recs, 1, Len(recs) - 1))
             rec    == recs[Len(recs)]
         IN  [history |-> AddRecordHistory(before.history, rec),
              stats   |-> AddRecordStats(before.stats, rec)]

Repeat(rec, n) == [i \in 1..n |-> rec]

\* Recorded executions a behaviour of Spec starts from: none; a slow edge;
\* fast speculative runs with a high acceptance rate; the one after the other
HistoryCases ==
    { <<>>,
      Repeat(ExecutionRecord(EDGE_ONLY, 0, 5000, 5000, 0, TRUE), MinSamples),
      Repeat(ExecutionRecord(SPECULATIVE_STANDARD, 9500, 60, 30, 25, TRUE), MinSamples),
      Repeat(ExecutionRecord(EDGE_ONLY, 0, 5000, 5000, 0, TRUE), MinSamples)
          \o Repeat(ExecutionRecord(SPECULATIVE_STANDARD, 9500, 60, 30, 25, TRUE), MinSamples) }

(***************************************************************************)
(* State machine of the decision module                                    *)
(***************************************************************************)
NoResult == [outcome |-> "none", path |-> "", plan |-> NoPlan]

IdleCall == [phase |-> "idle", loop |-> "none", request |-> NoRequest, sampled |-> FALSE,
             system_state |-> DefaultSystemStats, network_state |-> NoNetwork,
             hard |-> NoDecision, scored |-> <<>>, result |-> NoResult,
             previous |-> NoResult, epoch |-> 0]

NoExecution == [returned |-> FALSE, text |-> "", acceptance_rate |-> 0, edge_latency_ms |-> 0,
                cloud_latency_ms |-> 0, used_draft_verify |-> FALSE, elapsed_ms |-> 0]

\* what passed between the edge and the cloud while a request was executed:
\* nothing yet
NoExchange == [verify_sent |-> FALSE, reply |-> "none", status |-> 0,
               draft_confidence |-> 0]

IdleInference == [pc |-> "idle", request |-> NoRequest, plan |-> NoPlan,
                  result |-> NoExecution, exchange |-> NoExchange]

\* no process_inference coroutine on the loop
NoRequests == <<>>

\* decide_async lines 94-95: should_update() counts the call, and every
\* update_interval-th call runs _apply_adaptive_updates
AdaptiveStep ==
    /\ execution_count' = execution_count + 1
    /\ IF should_update(execution_count + 1)
       THEN /\ config_confidence_threshold' =
                   apply_confidence_threshold(strategy_stats, config_confidence_threshold)
            /\ current_confidence_threshold' =
                   apply_confidence_threshold(strategy_stats, config_confidence_threshold)
            /\ config_draft_max_tokens' =
                   apply_draft_max_tokens(strategy_stats, config_draft_max_tokens)
            /\ updates_applied' = updates_applied + 1
       ELSE UNCHANGED <<config_confidence_threshold, current_confidence_threshold,
                        config_draft_max_tokens, updates_applied>>

\* hard_decision and scored_strategies, the locals of decide_async
hard_decision(context) == check(context)
scored_strategies(context, st, w) ==
    IF check(context).kind = "none" THEN score_strategies(context, st, w) ELSE <<>>

\* decide called with no loop running (a script or a test)
Decide(request, sampled, system_state, network_state) ==
    LET context == _build_context(request, sampled, system_state, network_state)
    IN  /\ call.phase = "idle"
        /\ AdaptiveStep
        /\ call' = [phase |-> "done", loop |-> "none", request |-> request,
                    sampled |-> sampled,
                    system_state |-> context.system_state,
                    network_state |-> network_state,
                    hard |-> hard_decision(context),
                    scored |-> scored_strategies(context, strategy_stats, scoring_weights),
                    result |-> decide("none", context, strategy_stats, scoring_weights),
                    previous |-> NoResult, epoch |-> 0]
        /\ UNCHANGED <<history, strategy_stats, added, scoring_weights, inference, requests, hardware_adaptive, verification, monitor, kv_cache>>

\* the caller calls decide once more with the request, the monitor readings
\* and the probe result of the call before; previous keeps what that call
\* returned, epoch the number of adaptive updates applied when it returned
DecideAgain ==
    LET context == _build_context(call.request, call.sampled,
                                  call.system_state, call.network_state)
    IN  /\ call.phase = "done"
        /\ call.loop = "none"
        /\ AdaptiveStep
        /\ call' = [call EXCEPT
               !.hard = hard_decision(context),
               !.scored = scored_strategies(context, strategy_stats, scoring_weights),
               !.result = decide("none", context, strategy_stats, scoring_weights),
               !.previous = call.result,
               !.epoch = updates_applied]
        /\ UNCHANGED <<history, strategy_stats, added, scoring_weights, inference, requests, hardware_adaptive, verification, monitor, kv_cache>>

\* decide called from a coroutine of the running loop, as process_inference
\* does: run_until_complete refuses, decide_async never starts
DecideInRunningLoop(request) ==
    /\ call.phase = "idle"
    /\ call' = [IdleCall EXCEPT !.phase = "done", !.loop = "running", !.request = request,
                                !.result = decide("running",
                                                  _build_context(request, FALSE,
                                                                 DefaultSystemStats, NoNetwork),
                                                  strategy_stats, scoring_weights)]
    /\ UNCHANGED <<history, strategy_stats, added, scoring_weights,
                   config_confidence_threshold, config_draft_max_tokens,
                   current_confidence_threshold, execution_count, updates_applied,
                   inference, requests, hardware_adaptive, verification, monitor, kv_cache>>

\* the caller takes the plan, or the exception
ReturnToCaller ==
    /\ call.phase = "done"
    /\ call' = IdleCall
    /\ UNCHANGED <<history, strategy_stats, added, scoring_weights,
                   config_confidence_threshold, config_draft_max_tokens,
                   current_confidence_threshold, execution_count, updates_applied,
                   inference, requests, hardware_adaptive, verification, monitor, kv_cache>>

Init ==
    /\ \E recs \in HistoryCases :
          /\ history = Replay(recs).history
          /\ strategy_stats = Replay(recs).stats
          /\ added = recs
    /\ scoring_weights \in WeightConfigs
    /\ config_confidence_threshold = 8000
    /\ config_draft_max_tokens = initial_draft_max_tokens
    /\ current_confidence_threshold = 8000
    /\ execution_count = PriorDecisions
    /\ updates_applied = 0
    /\ call = IdleCall
    /\ inference = IdleInference
    /\ requests = NoRequests
    /\ hardware_adaptive = DefaultHardwareAdaptive
    /\ verification = IdleVerification
    /\ monitor = InitialMonitor
    /\ kv_cache = InitialKVCache

Next ==
    \/ /\ call.phase = "idle"
       /\ execution_count < PriorDecisions + MaxDecisions
       /\ \E request \in RequestSamples, system_state \in SystemSamples,
             network_state \in NetworkSamples, sampled \in BOOLEAN :
             Decide(request, sampled, system_state, network_state)
    \/ /\ call.phase = "idle"
       /\ \E request \in RequestSamples : DecideInRunningLoop(request)
    \/ ReturnToCaller

Spec == Init /\ [][Next]_vars

(***************************************************************************)
(* State machine of the history tracker                                    *)
(***************************************************************************)
MaxAdded == 7      \* add_record calls explored since construction or clear

\* records of three strategies, told apart by their latencies
RecordSamples ==
    { ExecutionRecord(EDGE_ONLY, 0, 30, 30, 0, TRUE),
      ExecutionRecord(CLOUD_DIRECT, 0, 200, 0, 180, FALSE),
      ExecutionRecord(SPECULATIVE_STANDARD, 9000, 80, 30, 40, TRUE),
      ExecutionRecord(SPECULATIVE_STANDARD, 5000, 120, 30, 70, TRUE) }

\* HistoryTracker.add_record
add_record(rec) ==
    /\ history' = AddRecordHistory(history, rec)
    /\ strategy_stats' = AddRecordStats(strategy_stats, rec)
    /\ added' = Append(added, rec)
    /\ UNCHANGED <<scoring_weights, config_confidence_threshold, config_draft_max_tokens,
                   current_confidence_threshold, execution_count, updates_applied,
                   call, inference, requests, hardware_adaptive, verification, monitor, kv_cache>>

\* HistoryTracker.clear
clear ==
    /\ added # <<>>
    /\ history' = <<>>
    /\ strategy_stats' = EmptyStats
    /\ added' = <<>>
    /\ UNCHANGED <<scoring_weights, config_confidence_threshold, config_draft_max_tokens,
                   current_confidence_threshold, execution_count, updates_applied,
                   call, inference, requests, hardware_adaptive, verification, monitor, kv_cache>>

\* HistoryTracker.__init__, inside a freshly built decision module
InitHistory ==
    /\ history = <<>>
    /\ strategy_stats = EmptyStats
    /\ added = <<>>
    /\ scoring_weights = DefaultWeights
    /\ config_confidence_threshold = 8000
    /\ config_draft_max_tokens = initial_draft_max_tokens
    /\ current_confidence_threshold = 8000
    /\ execution_count = 0
    /\ updates_applied = 0
    /\ call = IdleCall
    /\ inference = IdleInference
    /\ requests = NoRequests
    /\ hardware_adaptive = DefaultHardwareAdaptive
    /\ verification = IdleVerification
    /\ monitor = InitialMonitor
    /\ kv_cache = InitialKVCache

NextHistory ==
    \/ /\ Len(added) < MaxAdded
       /\ \E rec \in RecordSamples : add_record(rec)
    \/ clear

SpecHistory == InitHistory /\ [][NextHistory]_vars

(***************************************************************************)
(* State machine of the adaptive updates                                   *)
(***************************************************************************)
MaxAdaptiveCalls == 42   \* decide calls explored per behaviour of SpecAdaptive
MaxRecorded      == 1    \* executions recorded beyond one full history window

\* Where a behaviour of SpecAdaptive starts: a fresh module, and a module
\* whose 590 calls recorded nothing but fully accepted drafts (59 updates of
\* -0.005 each took the threshold from 0.80 to 0.505)
FullyAccepted == ExecutionRecord(SPECULATIVE_STANDARD, SCALE, 60, 30, 25, TRUE)
AllRejected   == ExecutionRecord(SPECULATIVE_STANDARD, 0, 90, 30, 50, TRUE)

AdaptiveStarts ==
    { [count |-> 0, updates |-> 0, threshold |-> 8000, recs |-> <<>>],
      [count |-> 59 * update_interval, updates |-> 59,
       threshold |-> 8000 - 59 * 50, recs |-> Repeat(FullyAccepted, max_history_size)] }

AdaptiveRequestSamples ==
    { [requirements |-> [present |-> TRUE, max_latency_ms |-> 3000,
                         min_quality_score |-> 9500, priority |-> 1, privacy_level |-> 0]],
      [requirements |-> [present |-> TRUE, max_latency_ms |-> 3000,
                         min_quality_score |-> 5000, priority |-> 5, privacy_level |-> 0]] }

GoodNetwork == [present |-> TRUE, rtt_ms |-> 20, is_weak_network |-> FALSE]

\* F1_DecisionModule.record_execution
record_execution(rec) == add_record(rec)

InitAdaptive ==
    /\ \E start \in AdaptiveStarts :
          /\ history = Replay(start.recs).history
          /\ strategy_stats = Replay(start.recs).stats
          /\ added = start.recs
          /\ config_confidence_threshold = start.threshold
          /\ current_confidence_threshold = start.threshold
          /\ execution_count = start.count
          /\ updates_applied = start.updates
    /\ scoring_weights = DefaultWeights
    /\ config_draft_max_tokens = initial_draft_max_tokens
    /\ call = IdleCall
    /\ inference = IdleInference
    /\ requests = NoRequests
    /\ hardware_adaptive = DefaultHardwareAdaptive
    /\ verification = IdleVerification
    /\ monitor = InitialMonitor
    /\ kv_cache = InitialKVCache

NextAdaptive ==
    \/ /\ call.phase = "idle"
       /\ \E start \in AdaptiveStarts :
             /\ execution_count >= start.count
             /\ execution_count < start.count + MaxAdaptiveCalls
       /\ \E request \in AdaptiveRequestSamples :
             Decide(request, TRUE, DefaultSystemStats, GoodNetwork)
    \/ ReturnToCaller
    \/ /\ Len(added) < max_history_size + MaxRecorded
       /\ \E rec \in {FullyAccepted, AllRejected} : record_execution(rec)

SpecAdaptive == InitAdaptive /\ [][NextAdaptive]_vars

(***************************************************************************)
(* edge/edge_server.py : EdgeServer.process_inference and its executors    *)
(***************************************************************************)
MaxInferences == 2      \* process_inference calls that reach an executor, per behaviour

\* What an executor hands back to process_inference.  elapsed_ms is the time
\* the executor took on the edge's loop clock: the draft generation (d) and
\* the round trip to the cloud (r), each only when the path takes it.
Execution(text, acceptance_rate, edge_latency_ms, cloud_latency_ms, used_draft_verify, elapsed_ms) ==
    [returned |-> TRUE, text |-> text, acceptance_rate |-> acceptance_rate,
     edge_latency_ms |-> edge_latency_ms, cloud_latency_ms |-> cloud_latency_ms,
     used_draft_verify |-> used_draft_verify, elapsed_ms |-> elapsed_ms]

\* the texts a response can carry: the edge's draft, the text the cloud
\* verified, the text the cloud generated, and the empty default
DraftText    == "draft"
VerifiedText == "final_text"
CloudText    == "cloud_text"
EmptyText    == ""

_execute_edge_only(d) == Execution(DraftText, 0, d, 0, FALSE, d)

\* status 200: text and latency_ms are read from the reply's data, with ''
\* and 0.0 where the reply has no data (an error-typed reply); any other
\* status or an exception: the edge answers alone, after the failed round trip
_execute_cloud_direct(reply, d, r) ==
    IF reply.kind # "exception" /\ reply.status = 200
        THEN IF reply.kind = "ok"
             THEN Execution(CloudText, 0, 0, reply.latency_ms, FALSE, r)
             ELSE Execution(EmptyText, 0, 0, 0, FALSE, r)
    ELSE [_execute_edge_only(d) EXCEPT !.elapsed_ms = r + d]

\* a verify_response: acceptance_rate and latency_ms are taken as they come; an
\* exception (timeout, connection error, a body that is not JSON): the draft is
\* the answer; a JSON reply of any other type, whatever its status: the
\* function falls off its end and returns None
_execute_speculative(reply, d, r) ==
    IF reply.kind = "verify_response"
        THEN Execution(VerifiedText, reply.acceptance_rate, d, reply.latency_ms, TRUE, d + r)
    ELSE IF reply.kind = "exception"
        THEN Execution(DraftText, 0, d, 0, FALSE, d + r)
    ELSE NoExecution

\* the verify exchange of _execute_speculative: the request is posted once the
\* draft is there, whatever the draft's confidence and the request's
\* use_confidence_check
verify_exchange(request, plan, draft_confidence, reply) ==
    [verify_sent |-> TRUE, reply |-> reply.kind, status |-> reply.status,
     draft_confidence |-> draft_confidence]

\* the exchange of _execute_cloud_direct: no draft, no verify request
direct_exchange(reply) ==
    [NoExchange EXCEPT !.reply = reply.kind, !.status = reply.status]

\* the record process_inference appends for a plan and an executor's result
inference_record(plan, result) ==
    ExecutionRecord(plan.strategy, result.acceptance_rate, result.elapsed_ms,
                    result.edge_latency_ms, result.cloud_latency_ms, TRUE)

DraftLatencySamples == {30}
RoundTripSamples    == {40}
\* latency_ms as reported by the cloud: within the round trip, and beyond it
CloudReportedSamples == {25, 500}

\* what comes back from /inference/direct: a result, the cloud's error reply
\* (which its HTTP handler sends with status 200), a 503, and an exception
\* (connection error, timeout)
CloudDirectReplies ==
    [kind : {"ok"}, status : {200}, latency_ms : CloudReportedSamples, acceptance_rate : {0}]
    \cup {[kind |-> "error", status |-> 200, latency_ms |-> 0, acceptance_rate |-> 0],
          [kind |-> "error", status |-> 503, latency_ms |-> 0, acceptance_rate |-> 0],
          [kind |-> "exception", status |-> 0, latency_ms |-> 0, acceptance_rate |-> 0]}

\* what comes back from /verify: a verify_response, the cloud's error reply
\* (JSON of type 'error', status 200 from its HTTP handler or 503 from a
\* gateway), and an exception (connection error, timeout, a body that is not
\* JSON)
\* (acceptance_rate as carried by the reply: 0, 0.9, and 1.5)
VerifyReplies ==
    [kind : {"verify_response"}, status : {200}, latency_ms : CloudReportedSamples,
     acceptance_rate : {0, 9000, 15000}]
    \cup {[kind |-> "exception", status |-> 0, latency_ms |-> 0, acceptance_rate |-> 0],
          [kind |-> "exception", status |-> 503, latency_ms |-> 0, acceptance_rate |-> 0],
          [kind |-> "error", status |-> 200, latency_ms |-> 0, acceptance_rate |-> 0],
          [kind |-> "error", status |-> 503, latency_ms |-> 0, acceptance_rate |-> 0]}

\* requests that lead to each strategy: a confidential one (EDGE_ONLY), a
\* plain one (scored), one with a null privacy_level (exception fallback), one
\* without requirements (decide raises)
ExecRequestSamples ==
    { [requirements |-> [present |-> TRUE, max_latency_ms |-> 3000,
                         min_quality_score |-> 8000, priority |-> 1, privacy_level |-> 2]],
      [requirements |-> [present |-> TRUE, max_latency_ms |-> 100,
                         min_quality_score |-> 5000, priority |-> 1, privacy_level |-> 0]],
      [requirements |-> [present |-> TRUE, max_latency_ms |-> 100,
                         min_quality_score |-> 8000, priority |-> 1, privacy_level |-> Null]],
      NoRequest }

\* InferenceRequest.use_confidence_check, True unless the client clears it
use_confidence_check(request) == TRUE

ExecSystemSamples ==
    { DefaultSystemStats, [DefaultSystemStats EXCEPT !.cpu_usage = 98] }

\* process_inference on asyncio's stock event loop: decide calls
\* run_until_complete on the loop that is running process_inference, the
\* RuntimeError leaves process_inference, nothing is executed or recorded
InferenceOnRunningLoop(request) ==
    /\ inference.pc = "idle"
    /\ decide("running", DecisionContext(request, DefaultSystemStats, NoNetwork),
              strategy_stats, scoring_weights).outcome = "raised"
    /\ inference' = [IdleInference EXCEPT !.pc = "raised"]
    /\ UNCHANGED <<history, strategy_stats, added, scoring_weights,
                   config_confidence_threshold, config_draft_max_tokens,
                   current_confidence_threshold, execution_count, updates_applied, call, requests, hardware_adaptive, verification, monitor, kv_cache>>

\* process_inference up to its first await, on a loop that lets decide run
\* decide_async to completion (a re-entrant loop)
BeginInference(request, system_state, network_state) ==
    LET context == _build_context(request, TRUE, system_state, network_state)
        result  == decide("reentrant", context, strategy_stats, scoring_weights)
    IN  /\ inference.pc = "idle"
        /\ AdaptiveStep
        /\ inference' = IF result.outcome = "returned"
                        THEN [IdleInference EXCEPT !.pc = "executing", !.request = request,
                                                   !.plan = result.plan]
                        ELSE [IdleInference EXCEPT !.pc = "raised", !.request = request]
        /\ UNCHANGED <<history, strategy_stats, added, scoring_weights, call, requests, hardware_adaptive, verification, monitor, kv_cache>>

\* the rest of process_inference once the executor has returned: the total
\* latency is taken from the loop clock and the record is appended; a None
\* result raises TypeError before the record is made
FinishInference(result, exchange) ==
    /\ IF result.returned
       THEN /\ history' = AddRecordHistory(history, inference_record(inference.plan, result))
            /\ strategy_stats' =
                   AddRecordStats(strategy_stats, inference_record(inference.plan, result))
            /\ added' = Append(added, inference_record(inference.plan, result))
            /\ inference' = [inference EXCEPT !.pc = "done", !.result = result,
                                              !.exchange = exchange]
       ELSE /\ inference' = [inference EXCEPT !.pc = "raised", !.exchange = exchange]
            /\ UNCHANGED <<history, strategy_stats, added>>
    /\ UNCHANGED <<scoring_weights, config_confidence_threshold, config_draft_max_tokens,
                   current_confidence_threshold, execution_count, updates_applied, call, requests, hardware_adaptive, verification, monitor, kv_cache>>

ExecuteEdgeOnly(d) ==
    /\ inference.pc = "executing"
    /\ inference.plan.strategy = EDGE_ONLY
    /\ FinishInference(_execute_edge_only(d), NoExchange)

ExecuteCloudDirect(reply, d, r) ==
    /\ inference.pc = "executing"
    /\ inference.plan.strategy = CLOUD_DIRECT
    /\ FinishInference(_execute_cloud_direct(reply, d, r), direct_exchange(reply))

\* _execute_speculative, and _execute_adaptive which delegates to it
ExecuteSpeculative(reply, confidence, d, r) ==
    /\ inference.pc = "executing"
    /\ IsSpeculative(inference.plan.strategy)
    /\ FinishInference(_execute_speculative(reply, d, r),
                       verify_exchange(inference.request, inference.plan, confidence, reply))

\* the HTTP handler answers (the result, or the error) and the next request
\* is taken
Respond ==
    /\ inference.pc \in {"done", "raised"}
    /\ inference' = IdleInference
    /\ UNCHANGED <<history, strategy_stats, added, scoring_weights,
                   config_confidence_threshold, config_draft_max_tokens,
                   current_confidence_threshold, execution_count, updates_applied, call, requests, hardware_adaptive, verification, monitor, kv_cache>>

InitExec ==
    /\ \E recs \in HistoryCases :
          /\ history = Replay(recs).history
          /\ strategy_stats = Replay(recs).stats
          /\ added = recs
    /\ scoring_weights = DefaultWeights
    /\ config_confidence_threshold = 8000
    /\ config_draft_max_tokens = initial_draft_max_tokens
    /\ current_confidence_threshold = 8000
    /\ execution_count = 0
    /\ updates_applied = 0
    /\ call = IdleCall
    /\ inference = IdleInference
    /\ requests = NoRequests
    /\ hardware_adaptive = DefaultHardwareAdaptive
    /\ verification = IdleVerification
    /\ monitor = InitialMonitor
    /\ kv_cache = InitialKVCache

NextExec ==
    \/ /\ inference.pc = "idle"
       /\ \E request \in ExecRequestSamples : InferenceOnRunningLoop(request)
    \/ /\ inference.pc = "idle"
       /\ execution_count < MaxInferences
       /\ \E request \in ExecRequestSamples, system_state \in ExecSystemSamples :
             BeginInference(request, system_state, NoNetwork)
    \/ \E d \in DraftLatencySamples : ExecuteEdgeOnly(d)
    \/ \E reply \in CloudDirectReplies, d \in DraftLatencySamples, r \in RoundTripSamples :
          ExecuteCloudDirect(reply, d, r)
    \* the draft's confidence score: below and above every plan's threshold
    \/ \E reply \in VerifyReplies, confidence \in {3000, 9800},
          d \in DraftLatencySamples, r \in RoundTripSamples :
          ExecuteSpeculative(reply, confidence, d, r)
    \/ Respond

SpecExec == InitExec /\ [][NextExec]_vars

(***************************************************************************)
(* Adaptive updates applied to a given history and configuration           *)
(***************************************************************************)
MaxUpdates == 2         \* _apply_adaptive_updates runs explored per behaviour

\* speculative histories: n records of one acceptance rate (below, on the
\* edges of, inside and above the target band) and one latency (far below,
\* below and close to the default SLO), n around the minimum sample count
UpdateHistories ==
    { Repeat(ExecutionRecord(SPECULATIVE_STANDARD, a, l, 30, 25, TRUE), n) :
        a \in {2000, 8000, 8500, 9000, 9500, SCALE}, l \in {10, 100, 140},
        n \in {0, 2, MinSamples - 1, MinSamples, RecentWindow} }

\* configured thresholds: the default, and values at and next to the bounds
UpdateThresholds ==
    {initial_confidence_threshold, threshold_min, threshold_min + 10,
     threshold_max - 10, threshold_max}

\* _apply_adaptive_updates: update_parameters on the tracker and the current
\* configuration, its results written back
update_parameters ==
    /\ config_confidence_threshold' =
           apply_confidence_threshold(strategy_stats, config_confidence_threshold)
    /\ current_confidence_threshold' =
           apply_confidence_threshold(strategy_stats, config_confidence_threshold)
    /\ config_draft_max_tokens' =
           apply_draft_max_tokens(strategy_stats, config_draft_max_tokens)
    /\ updates_applied' = updates_applied + 1
    /\ UNCHANGED <<history, strategy_stats, added, scoring_weights, execution_count,
                   call, inference, requests, hardware_adaptive, verification, monitor, kv_cache>>

InitUpdate ==
    /\ \E recs \in UpdateHistories :
          /\ history = Replay(recs).history
          /\ strategy_stats = Replay(recs).stats
          /\ added = recs
    /\ scoring_weights = DefaultWeights
    /\ config_confidence_threshold \in UpdateThresholds
    /\ config_draft_max_tokens \in {20, 32, 36, initial_draft_max_tokens, 124, 128, 200}
    /\ current_confidence_threshold = config_confidence_threshold
    /\ execution_count = 0
    /\ updates_applied = 0
    /\ call = IdleCall
    /\ inference = IdleInference
    /\ requests = NoRequests
    /\ hardware_adaptive = DefaultHardwareAdaptive
    /\ verification = IdleVerification
    /\ monitor = InitialMonitor
    /\ kv_cache = InitialKVCache

NextUpdate == updates_applied < MaxUpdates /\ update_parameters

SpecUpdate == InitUpdate /\ [][NextUpdate]_vars

(***************************************************************************)
(* Adaptive updates that keep coming on an unchanging history: every       *)
(* update_interval-th decide call runs one, so a module that keeps         *)
(* receiving requests keeps updating                                       *)
(***************************************************************************)
MaxSteadyUpdates == 185   \* updates explored per behaviour of SpecSteady

\* a full window of speculative records of one acceptance rate (far below,
\* inside, above and far above the target band), and a configured threshold
InitSteady ==
    /\ \E a \in {2000, 8500, 9500, SCALE} :
          LET recs == Repeat(ExecutionRecord(SPECULATIVE_STANDARD, a, 100, 30, 25, TRUE),
                             RecentWindow)
          IN  /\ history = Replay(recs).history
              /\ strategy_stats = Replay(recs).stats
              /\ added = recs
    /\ scoring_weights = DefaultWeights
    /\ config_confidence_threshold \in UpdateThresholds
    /\ config_draft_max_tokens = initial_draft_max_tokens
    /\ current_confidence_threshold = config_confidence_threshold
    /\ execution_count = 0
    /\ updates_applied = 0
    /\ call = IdleCall
    /\ inference = IdleInference
    /\ requests = NoRequests
    /\ hardware_adaptive = DefaultHardwareAdaptive
    /\ verification = IdleVerification
    /\ monitor = InitialMonitor
    /\ kv_cache = InitialKVCache

NextSteady == updates_applied < MaxSteadyUpdates /\ update_parameters

SpecSteady == InitSteady /\ [][NextSteady]_vars /\ WF_vars(NextSteady)

(***************************************************************************)
(* Repeated decide calls on a freshly constructed module                   *)
(***************************************************************************)
MaxRepeatCalls == 2     \* decide calls explored per behaviour

NextRepeat ==
    \/ /\ call.phase = "idle"
       /\ execution_count < MaxRepeatCalls
       /\ \E request \in RequestSamples, system_state \in SystemSamples,
             network_state \in NetworkSamples, sampled \in BOOLEAN :
             Decide(request, sampled, system_state, network_state)
    \/ /\ execution_count < MaxRepeatCalls
       /\ DecideAgain
    \/ ReturnToCaller

SpecRepeat == InitExec /\ [][NextRepeat]_vars

(***************************************************************************)
(* Concurrent requests: process_inference coroutines sharing one event     *)
(* loop, one decision module and one HistoryTracker                        *)
(***************************************************************************)
MaxConcurrent == 2      \* coroutines on the loop, per behaviour

RequestIds == 1..MaxConcurrent

NoReply == [kind |-> "none", status |-> 0, latency_ms |-> 0, acceptance_rate |-> 0]

\* the locals of one process_inference coroutine: its plan, its
\* draft_response (latency, Null before the draft is there), whether its
\* verify request was posted and from what, the reply it got, its result, and
\* where its record sits among the records added
NewRequest == [phase |-> "new", step |-> 0, plan |-> NoPlan, draft_ms |-> Null,
               posted |-> "none", reply |-> NoReply, round_trip_ms |-> 0,
               result |-> NoExecution, record_index |-> 0]

\* the points at which a coroutine is resumed, in program order: a mutation
\* that posts the verify request before the draft is awaited
coroutine_steps_post_first(strategy) ==
    IF IsSpeculative(strategy) THEN <<"post_verify", "draft", "verify_reply", "record">>
    ELSE IF strategy = CLOUD_DIRECT THEN <<"direct", "record">>
    ELSE <<"draft", "record">>

\* the points at which a coroutine is resumed, in program order.  The code
\* posts the verify request in the stretch that follows the draft, and records
\* in the stretch that follows the reply; taking the four as separate steps
\* only adds interleavings
coroutine_steps(strategy) ==
    IF IsSpeculative(strategy) THEN <<"draft", "post_verify", "verify_reply", "record">>
    ELSE IF strategy = CLOUD_DIRECT THEN <<"direct", "record">>
    ELSE <<"draft", "record">>

current_step(req) ==
    IF req.phase = "running" THEN coroutine_steps(req.plan.strategy)[req.step] ELSE "none"

\* the result the executor of a coroutine returns, from the coroutine's locals
request_result(req) ==
    IF IsSpeculative(req.plan.strategy)
        THEN _execute_speculative(req.reply, req.draft_ms, req.round_trip_ms)
    ELSE IF req.plan.strategy = CLOUD_DIRECT THEN req.result
    ELSE _execute_edge_only(req.draft_ms)

ConcurrentRequestSamples == ExecRequestSamples \ {NoRequest}

ConcurrentVerifyReplies ==
    { reply \in VerifyReplies : reply.status # 503 /\ reply.latency_ms # 500
                                /\ reply.acceptance_rate # 15000 }

\* process_inference up to its first await: decide, then the executor up to
\* the draft generation (or the post, for CLOUD_DIRECT)
Accept(i, request, system_state) ==
    LET context == _build_context(request, TRUE, system_state, NoNetwork)
        result  == decide("reentrant", context, strategy_stats, scoring_weights)
    IN  /\ requests[i].phase = "new"
        /\ AdaptiveStep
        /\ requests' = [requests EXCEPT ![i] =
               IF result.outcome = "returned"
               THEN [NewRequest EXCEPT !.phase = "running", !.step = 1, !.plan = result.plan]
               ELSE [NewRequest EXCEPT !.phase = "raised"]]
        /\ UNCHANGED <<history, strategy_stats, added, scoring_weights, call, inference, hardware_adaptive, verification, monitor, kv_cache>>

\* generate_draft returns: draft_response is bound
DraftDone(i, d) ==
    /\ current_step(requests[i]) = "draft"
    /\ requests' = [requests EXCEPT ![i].draft_ms = d, ![i].step = @ + 1]
    /\ UNCHANGED <<history, strategy_stats, added, scoring_weights,
                   config_confidence_threshold, config_draft_max_tokens,
                   current_confidence_threshold, execution_count, updates_applied,
                   call, inference, hardware_adaptive, verification, monitor, kv_cache>>

\* the verify request is built from draft_response and posted
PostVerify(i) ==
    /\ current_step(requests[i]) = "post_verify"
    /\ requests' = [requests EXCEPT
           ![i].posted = IF requests[i].draft_ms = Null THEN "without_draft" ELSE "with_draft",
           ![i].step = @ + 1]
    /\ UNCHANGED <<history, strategy_stats, added, scoring_weights,
                   config_confidence_threshold, config_draft_max_tokens,
                   current_confidence_threshold, execution_count, updates_applied,
                   call, inference, hardware_adaptive, verification, monitor, kv_cache>>

\* the reply to the verify request arrives, or the post raises
VerifyReply(i, reply, r) ==
    /\ current_step(requests[i]) = "verify_reply"
    /\ requests' = [requests EXCEPT ![i].reply = reply, ![i].round_trip_ms = r,
                                    ![i].step = @ + 1]
    /\ UNCHANGED <<history, strategy_stats, added, scoring_weights,
                   config_confidence_threshold, config_draft_max_tokens,
                   current_confidence_threshold, execution_count, updates_applied,
                   call, inference, hardware_adaptive, verification, monitor, kv_cache>>

\* _execute_cloud_direct from its post to its return
DirectReply(i, reply, d, r) ==
    /\ current_step(requests[i]) = "direct"
    /\ requests' = [requests EXCEPT ![i].reply = reply, ![i].round_trip_ms = r,
                                    ![i].result = _execute_cloud_direct(reply, d, r),
                                    ![i].step = @ + 1]
    /\ UNCHANGED <<history, strategy_stats, added, scoring_weights,
                   config_confidence_threshold, config_draft_max_tokens,
                   current_confidence_threshold, execution_count, updates_applied,
                   call, inference, hardware_adaptive, verification, monitor, kv_cache>>

\* the executor returns and process_inference runs to its end: total latency,
\* record_execution, return; a None result raises TypeError before the record
RecordAndReturn(i) ==
    LET req    == requests[i]
        result == request_result(req)
    IN  /\ current_step(req) = "record"
        /\ IF result.returned
           THEN /\ history' = AddRecordHistory(history, inference_record(req.plan, result))
                /\ strategy_stats' =
                       AddRecordStats(strategy_stats, inference_record(req.plan, result))
                /\ added' = Append(added, inference_record(req.plan, result))
                /\ requests' = [requests EXCEPT ![i].phase = "done", ![i].result = result,
                                                ![i].record_index = Len(added) + 1]
           ELSE /\ requests' = [requests EXCEPT ![i].phase = "raised"]
                /\ UNCHANGED <<history, strategy_stats, added>>
        /\ UNCHANGED <<scoring_weights, config_confidence_threshold,
                       config_draft_max_tokens, current_confidence_threshold,
                       execution_count, updates_applied, call, inference, hardware_adaptive, verification, monitor, kv_cache>>

InitConcurrent ==
    /\ \E recs \in HistoryCases :
          /\ history = Replay(recs).history
          /\ strategy_stats = Replay(recs).stats
          /\ added = recs
    /\ scoring_weights = DefaultWeights
    /\ config_confidence_threshold = 8000
    /\ config_draft_max_tokens = initial_draft_max_tokens
    /\ current_confidence_threshold = 8000
    /\ execution_count = 0
    /\ updates_applied = 0
    /\ call = IdleCall
    /\ inference = IdleInference
    /\ requests = [i \in RequestIds |-> NewRequest]
    /\ hardware_adaptive = DefaultHardwareAdaptive
    /\ verification = IdleVerification
    /\ monitor = InitialMonitor
    /\ kv_cache = InitialKVCache

NextConcurrent ==
    \E i \in RequestIds :
        \/ \E request \in ConcurrentRequestSamples, system_state \in ExecSystemSamples :
              Accept(i, request, system_state)
        \/ \E d \in DraftLatencySamples : DraftDone(i, d)
        \/ PostVerify(i)
        \/ \E reply \in ConcurrentVerifyReplies, r \in RoundTripSamples : VerifyReply(i, reply, r)
        \/ \E reply \in CloudDirectReplies, d \in DraftLatencySamples, r \in RoundTripSamples :
              DirectReply(i, reply, d, r)
        \/ RecordAndReturn(i)

SpecConcurrent == InitConcurrent /\ [][NextConcurrent]_vars

(***************************************************************************)
(* ExecutionPlanner.generate_plan under configured hardware caps           *)
(***************************************************************************)
\* config['hardware_adaptive'] of the constructed planner: the stock
\* configuration, or caps of at least one token for each mode and strategy
InitPlanner ==
    /\ history = <<>>
    /\ strategy_stats = EmptyStats
    /\ added = <<>>
    /\ scoring_weights = DefaultWeights
    /\ config_confidence_threshold = 8000
    /\ config_draft_max_tokens = initial_draft_max_tokens
    /\ current_confidence_threshold = 8000
    /\ execution_count = 0
    /\ updates_applied = 0
    /\ call = IdleCall
    /\ inference = IdleInference
    /\ requests = NoRequests
    /\ hardware_adaptive \in
          {DefaultHardwareAdaptive} \cup
          [gpu_mode : [edge_only_max_tokens : {1, 128},
                       collaborative_draft_tokens : {1, 50, 100}],
           cpu_mode : [edge_only_max_tokens : {1, 128},
                       collaborative_draft_tokens : {1, 50, 100}]]
    /\ verification = IdleVerification
    /\ monitor = InitialMonitor
    /\ kv_cache = InitialKVCache

\* planner.generate_plan(strategy, context, score, reason) called directly
GeneratePlan(strategy, device_type, max_latency_ms) ==
    LET request == [requirements |->
                       [present |-> TRUE, max_latency_ms |-> max_latency_ms,
                        min_quality_score |-> 8000, priority |-> 1, privacy_level |-> 0]]
        system_state == [DefaultSystemStats EXCEPT !.device_type = device_type]
        context == DecisionContext(request, system_state, NoNetwork)
    IN  /\ call' = [IdleCall EXCEPT
                        !.phase = "done", !.request = request,
                        !.system_state = system_state,
                        !.result = Returned("planned",
                                            generate_plan(strategy, context, 0, ""))]
        /\ UNCHANGED <<history, strategy_stats, added, scoring_weights,
                       config_confidence_threshold, config_draft_max_tokens,
                       current_confidence_threshold, execution_count, updates_applied,
                       inference, requests, hardware_adaptive, verification, monitor, kv_cache>>

NextPlanner ==
    \/ /\ call.phase = "idle"
       /\ \E strategy \in ExecutionStrategy, device_type \in {"gpu", "cpu"},
             max_latency_ms \in {100, 499, 500, 999, 1000, 3000} :
             GeneratePlan(strategy, device_type, max_latency_ms)
    \/ ReturnToCaller

SpecPlanner == InitPlanner /\ [][NextPlanner]_vars

(***************************************************************************)
(* State machine of the cloud's draft verifier                             *)
(***************************************************************************)
MaxDraftTokens == 3

\* await verifier.verify_draft(request), the large model accepting the first
\* accepted_prefix draft tokens
VerifyDraft(request, accepted_prefix) ==
    /\ verification' = [pc |-> "done", request |-> request,
                        accepted_prefix |-> accepted_prefix,
                        response |-> verify_draft(request, accepted_prefix)]
    /\ UNCHANGED <<history, strategy_stats, added, scoring_weights,
                   config_confidence_threshold, config_draft_max_tokens,
                   current_confidence_threshold, execution_count, updates_applied,
                   call, inference, requests, hardware_adaptive, monitor, kv_cache>>

NextVerifier ==
    \E request \in [prompt : {"Q: "},
                    draft_tokens : UNION {[1..n -> {"a", "b"}] : n \in 0..MaxDraftTokens},
                    max_verify_tokens : {Null, 0, 2, 5}] :
        \E accepted_prefix \in 0..Len(request.draft_tokens) :
            VerifyDraft(request, accepted_prefix)

SpecVerifier == InitHistory /\ [][NextVerifier]_vars

(***************************************************************************)
(* State machine of the state monitors                                     *)
(***************************************************************************)
MaxProbeFailures == 6
MaxShortWaits == 2

\* monitor.set_simulation_network(rtt, bandwidth) when is_weak_passed is
\* FALSE, monitor.set_simulation_network(rtt, bandwidth, is_weak) otherwise
set_simulation_network(rtt, bandwidth, is_weak_passed, is_weak) ==
    LET weak == IF is_weak_passed THEN is_weak ELSE FALSE
    IN  /\ monitor' = [monitor EXCEPT
                           !.simulation_mode = TRUE,
                           !.sim_net_stats =
                               NetworkStats(rtt, bandwidth, IF weak THEN 1000 ELSE 100, weak),
                           !.sim_is_weak_passed = is_weak_passed,
                           !.returned = NoReturn]
        /\ UNCHANGED <<history, strategy_stats, added, scoring_weights,
                   config_confidence_threshold, config_draft_max_tokens,
                   current_confidence_threshold, execution_count, updates_applied,
                   call, inference, requests, hardware_adaptive, verification, kv_cache>>

\* await monitor.probe_network(force), the HTTP probe ending as outcome
probe_network(force, outcome) ==
    LET this == [NoReturn EXCEPT !.method = "probe_network", !.force = force,
                                 !.within_ttl = monitor.last_network_stats.present
                                                /\ monitor.probe_age < network_cache_ttl]
        probe == _real_probe(monitor.probe_failure_count, outcome)
    IN  /\ monitor' =
              IF monitor.simulation_mode /\ monitor.sim_net_stats.present
              THEN [monitor EXCEPT !.returned = [this EXCEPT !.network = monitor.sim_net_stats]]
              ELSE IF ~force /\ monitor.last_network_stats.present
                             /\ monitor.probe_age < network_cache_ttl
              THEN [monitor EXCEPT
                       !.returned = [this EXCEPT !.network = monitor.last_network_stats]]
              ELSE [monitor EXCEPT
                       !.probe_failure_count = probe.probe_failure_count,
                       !.last_network_stats = probe.stats,
                       !.probe_age = 0,
                       !.returned = [this EXCEPT !.fresh = TRUE, !.outcome = outcome.kind,
                                                 !.network = probe.stats]]
        /\ UNCHANGED <<history, strategy_stats, added, scoring_weights,
                   config_confidence_threshold, config_draft_max_tokens,
                   current_confidence_threshold, execution_count, updates_applied,
                   call, inference, requests, hardware_adaptive, verification, kv_cache>>

\* monitor.get_system_stats(), psutil reading cpu_usage
get_system_stats(cpu_usage) ==
    /\ monitor' = [monitor EXCEPT
                       !.stats_sampled = TRUE, !.stats_age = 0,
                       !.returned = [NoReturn EXCEPT
                           !.method = "get_system_stats",
                           !.within_ttl = monitor.stats_sampled
                                          /\ monitor.stats_age < state_cache_ttl_ms,
                           !.fresh = TRUE,
                           !.system = [DefaultSystemStats EXCEPT !.cpu_usage = cpu_usage]]]
    /\ UNCHANGED <<history, strategy_stats, added, scoring_weights,
                   config_confidence_threshold, config_draft_max_tokens,
                   current_confidence_threshold, execution_count, updates_applied,
                   call, inference, requests, hardware_adaptive, verification, kv_cache>>

\* state_monitor.get_current_state(), psutil reading cpu_usage if sampled
get_current_state(cpu_usage) ==
    LET this == [NoReturn EXCEPT !.method = "get_current_state",
                                 !.within_ttl = monitor.last_system_present
                                                /\ monitor.update_age < state_cache_ttl_ms]
        sample == [DefaultSystemStats EXCEPT !.cpu_usage = cpu_usage]
    IN  /\ monitor' =
              IF monitor.last_system_present /\ monitor.update_age < state_cache_ttl_ms
              THEN [monitor EXCEPT
                       !.returned = [this EXCEPT !.system = monitor.last_system_state]]
              ELSE [monitor EXCEPT
                       !.last_system_present = TRUE, !.last_system_state = sample,
                       !.update_age = 0,
                       !.returned = [this EXCEPT !.fresh = TRUE, !.system = sample]]
        /\ UNCHANGED <<history, strategy_stats, added, scoring_weights,
                   config_confidence_threshold, config_draft_max_tokens,
                   current_confidence_threshold, execution_count, updates_applied,
                   call, inference, requests, hardware_adaptive, verification, kv_cache>>

\* d ms pass between two calls
Elapse(d) ==
    /\ monitor' = [monitor EXCEPT
                       !.probe_age  = Min(@ + d, network_cache_ttl),
                       !.stats_age  = Min(@ + d, state_cache_ttl_ms),
                       !.update_age = Min(@ + d, state_cache_ttl_ms),
                       !.returned   = NoReturn]
    /\ UNCHANGED <<history, strategy_stats, added, scoring_weights,
                   config_confidence_threshold, config_draft_max_tokens,
                   current_confidence_threshold, execution_count, updates_applied,
                   call, inference, requests, hardware_adaptive, verification, kv_cache>>

NextMonitor ==
    \/ \E injected \in {<<100, 50>>, <<250, 1>>}, is_weak_passed, is_weak \in BOOLEAN :
          set_simulation_network(injected[1], injected[2], is_weak_passed, is_weak)
    \/ \E force \in BOOLEAN,
          outcome \in [kind : {"ok"}, rtt_ms : {20, 200}]
                          \cup (IF monitor.probe_failure_count < MaxProbeFailures
                                THEN [kind : {"timeout", "error"}, rtt_ms : {0}] ELSE {}) :
          probe_network(force, outcome)
    \/ \E cpu_usage \in {10, 98} : get_system_stats(cpu_usage)
    \/ \E cpu_usage \in {10, 98} : get_current_state(cpu_usage)
    \/ /\ \/ monitor.probe_age < MaxShortWaits * state_cache_ttl_ms
          \/ monitor.probe_age = network_cache_ttl
       /\ Elapse(state_cache_ttl_ms)
    \/ Elapse(network_cache_ttl)

SpecMonitor == InitHistory /\ [][NextMonitor]_vars

(***************************************************************************)
(* State machine of the cloud's block allocation                           *)
(***************************************************************************)
MaxAllocations == 4     \* allocate_blocks calls explored per behaviour

\* VLLMKVCache.allocate_blocks, from taking the lock to its return, or to the
\* point where it waits for the lock inside _evict_blocks
allocate_blocks(num_blocks, prompt_hash) ==
    LET entered   == [kv_cache EXCEPT
                         !.lock = "held", !.now = @ + 1,
                         !.call = [state |-> "running", num_blocks |-> num_blocks,
                                   prompt_hash |-> prompt_hash, allocated_blocks |-> <<>>]]
        available_blocks == max_blocks - Cardinality(kv_cache.block_table)
        evicted   == IF available_blocks < num_blocks
                     THEN _evict_blocks(entered, num_blocks - available_blocks)
                     ELSE entered
        allocated_blocks == [i \in 1..num_blocks |-> kv_cache.next_block_id + i - 1]
    IN  /\ kv_cache.lock = "free"
        /\ kv_cache' =
               IF evicted.call.state = "waiting_for_lock" THEN evicted
               ELSE [evicted EXCEPT
                        !.block_table = @ \cup
                            { [block_id |-> allocated_blocks[i], prompt_hash |-> prompt_hash,
                               last_access |-> entered.now] : i \in 1..num_blocks },
                        !.next_block_id = @ + num_blocks,
                        !.lock = "free",
                        !.call.state = "returned",
                        !.call.allocated_blocks = allocated_blocks]
        /\ UNCHANGED <<history, strategy_stats, added, scoring_weights,
                       config_confidence_threshold, config_draft_max_tokens,
                       current_confidence_threshold, execution_count, updates_applied,
                       call, inference, requests, hardware_adaptive, verification, monitor>>

NextKVCache ==
    /\ kv_cache.now < MaxAllocations
    /\ \E num_blocks \in 1..max_blocks, prompt_hash \in {"a", "b"} :
          allocate_blocks(num_blocks, prompt_hash)

SpecKVCache == InitHistory /\ [][NextKVCache]_vars

(***************************************************************************)
(* Properties of the decision module (checked under Spec)                  *)
(***************************************************************************)
CallDone     == call.phase = "done"
CallReturned == CallDone /\ call.result.outcome = "returned"
CallRequirements == call.request.requirements
CallContext  == DecisionContext(call.request, call.system_state, call.network_state)

\* the request's requirements exist and every field holds a number
WellFormedRequirements ==
    CallRequirements.present /\ CallRequirements.privacy_level # Null

\* rule 1 or rule 2 of the checker holds of the sampled system state
OverloadOrMemory ==
    \/ call.system_state.device_type = "gpu"
       /\ call.system_state.gpu_usage > gpu_overload_threshold
    \/ call.system_state.device_type # "gpu"
       /\ call.system_state.cpu_usage > cpu_overload_threshold
    \/ call.system_state.memory_available_mb < memory_critical_mb

\* C1 (as claimed): every decide call, on every path, returns a plan whose
\* strategy is one of the four strategies and whose reason is not empty.
C1_EveryCallReturnsWellFormedPlan ==
    CallDone =>
        /\ call.result.outcome = "returned"
        /\ call.result.plan.strategy \in ExecutionStrategy
        /\ call.result.plan.reason # ""

\* C2 (as claimed): decide never raises to its caller; a pipeline exception
\* gives a CLOUD_DIRECT or SPECULATIVE_STANDARD fallback plan instead.
C2_DecideNeverRaises ==
    CallDone =>
        /\ call.result.outcome # "raised"
        /\ call.result.path = "exception" =>
               call.result.plan.strategy \in {CLOUD_DIRECT, SPECULATIVE_STANDARD}

\* C3 (as claimed): a request with privacy_level >= 2 gets EDGE_ONLY under
\* every system state, SLO and network state.
C3_PrivacyAlwaysEdgeOnly ==
    (CallReturned /\ WellFormedRequirements /\ CallRequirements.privacy_level >= 2)
        => call.result.plan.strategy = EDGE_ONLY

\* C3 (amended): a request with privacy_level >= 2 gets EDGE_ONLY unless the
\* hardware-overload or critical-memory rule matches first, and then it gets
\* CLOUD_DIRECT.
C3_PrivacyEdgeOnlyUnlessOverloaded ==
    (CallReturned /\ WellFormedRequirements /\ CallRequirements.privacy_level >= 2)
        => call.result.plan.strategy =
               (IF OverloadOrMemory THEN CLOUD_DIRECT ELSE EDGE_ONLY)

C3_Witness ==
    /\ CallReturned
    /\ CallRequirements.present
    /\ CallRequirements.privacy_level = 2
    /\ CallRequirements.priority = 5
    /\ CallRequirements.max_latency_ms = 3000
    /\ CallRequirements.min_quality_score = 9500
    /\ ~OverloadOrMemory
    /\ call.network_state.present /\ ~call.network_state.is_weak_network
    /\ call.network_state.rtt_ms = 20
    /\ call.result.plan.strategy = EDGE_ONLY
    /\ call.result.plan.reason = "privacy"

C5_Rules ==
    LET sys == call.system_state
        req == CallRequirements
        net == call.network_state
    IN  << [strategy |-> CLOUD_DIRECT,
            fires |-> \/ sys.device_type = "gpu" /\ sys.gpu_usage > gpu_overload_threshold
                      \/ sys.device_type # "gpu" /\ sys.cpu_usage > cpu_overload_threshold],
           [strategy |-> CLOUD_DIRECT,
            fires |-> sys.memory_available_mb < memory_critical_mb],
           [strategy |-> EDGE_ONLY,
            fires |-> req.max_latency_ms < ultra_low_latency_ms],
           [strategy |-> EDGE_ONLY,
            fires |-> req.privacy_level >= 2],
           [strategy |-> EDGE_ONLY,
            fires |-> net.present /\ (net.is_weak_network
                                      \/ net.rtt_ms > weak_network_rtt_threshold)],
           [strategy |-> EDGE_ONLY,
            fires |-> req.priority >= 3 /\ req.min_quality_score < 7000] >>

C5_RuleReasons ==
    << {"gpu_overload", "cpu_overload"}, {"memory_critical"}, {"ultra_low_latency"},
       {"privacy"}, {"weak_network", "high_rtt"}, {"urgent_low_quality"} >>

C5_FirstMatch ==
    IF \E i \in 1..6 : C5_Rules[i].fires
    THEN CHOOSE i \in 1..6 : C5_Rules[i].fires /\ \A j \in 1..(i - 1) : ~C5_Rules[j].fires
    ELSE 0

\* C5: check returns the outcome of the first matching rule in the order
\* hardware overload, critical memory, ultra-low latency, confidentiality,
\* weak network, high-priority-low-quality, and no decision when none
\* matches; the threshold comparisons are strict, so CPU usage equal to
\* cpu_overload and an SLO equal to ultra_low_latency trigger nothing.
C5_FirstMatchingRuleWins ==
    (CallDone /\ call.loop = "none" /\ WellFormedRequirements) =>
        /\ C5_FirstMatch = 0 => call.hard.kind = "none"
        /\ C5_FirstMatch # 0 =>
               /\ call.hard.kind = "hit"
               /\ call.hard.strategy = C5_Rules[C5_FirstMatch].strategy
               /\ call.hard.reason \in C5_RuleReasons[C5_FirstMatch]
        /\ (call.system_state.device_type = "cpu"
            /\ call.system_state.cpu_usage = cpu_overload_threshold)
               => call.hard.reason # "cpu_overload"
        /\ (call.system_state.device_type = "gpu"
            /\ call.system_state.gpu_usage = gpu_overload_threshold)
               => call.hard.reason # "gpu_overload"
        /\ CallRequirements.max_latency_ms = ultra_low_latency_ms
               => call.hard.reason # "ultra_low_latency"

\* CPU usage and SLO both exactly at their thresholds and no other rule
\* matching: the check has run and returned no decision
C5_Witness ==
    /\ CallDone /\ call.loop = "none" /\ call.sampled
    /\ WellFormedRequirements
    /\ call.system_state.device_type = "cpu"
    /\ call.system_state.cpu_usage = cpu_overload_threshold
    /\ call.system_state.memory_available_mb = memory_critical_mb
    /\ CallRequirements.max_latency_ms = ultra_low_latency_ms
    /\ call.network_state.present
    /\ call.network_state.rtt_ms = weak_network_rtt_threshold
    /\ call.hard.kind = "none"
    /\ call.result.path = "scored"

\* C6 (as claimed): a strategy whose projected latency exceeds the SLO has
\* total score 0, and the strategy the scoring path returns has a projected
\* latency within the SLO.
C6_OverSloNeverChosen ==
    (CallReturned /\ call.result.path = "scored") =>
        /\ \A i \in 1..Len(call.scored) :
               projected_latency(call.scored[i].strategy, CallContext, strategy_stats)
                   > CallRequirements.max_latency_ms
               => call.scored[i].score = 0
        /\ projected_latency(call.result.plan.strategy, CallContext, strategy_stats)
               <= CallRequirements.max_latency_ms

(***************************************************************************)
(* Properties of the history tracker (checked under SpecHistory)           *)
(***************************************************************************)
\* C8: after any sequence of add_record calls on a tracker of capacity
\* max_history_size the tracker holds at most max_history_size records, and
\* they are the most recent min(count, max_history_size) records added, in
\* insertion order.
C8_WindowHoldsMostRecent ==
    /\ Len(history) <= max_history_size
    /\ Len(history) = Min(Len(added), max_history_size)
    /\ \A i \in 1..Len(history) :
           history[i] = added[Len(added) - Len(history) + i]

\* more records added than the window holds, and the oldest one evicted
C8_Witness ==
    /\ Len(added) > max_history_size
    /\ Len(history) = max_history_size
    /\ history[1] # added[1]
    /\ history[Len(history)] = added[Len(added)]
    /\ \E i, j \in 1..Len(history) : history[i] # history[j]

(***************************************************************************)
(* Properties of the adaptive updates (checked under SpecAdaptive)         *)
(***************************************************************************)
InThresholdRange(x) == threshold_min <= x /\ x <= threshold_max

InferenceRecords == {history[i] : i \in 1..Len(history)}

\* C9 (as claimed): every record process_inference appends has
\* 0 <= acceptance_rate <= 1 whatever the verify reply carries, and
\* acceptance_rate = 0 when the executed strategy is EDGE_ONLY or CLOUD_DIRECT.
C9_AcceptanceRateInUnitRange ==
    \A rec \in InferenceRecords :
        /\ 0 <= rec.acceptance_rate /\ rec.acceptance_rate <= SCALE
        /\ rec.strategy \in {EDGE_ONLY, CLOUD_DIRECT} => rec.acceptance_rate = 0

\* C10 (as claimed): every record satisfies
\* latency_ms >= max(edge_latency_ms, cloud_latency_ms), latency_ms being the
\* total the edge measured and cloud_latency_ms the value the cloud reported.
C10_TotalLatencyDominates ==
    \A rec \in InferenceRecords :
        rec.latency_ms >= Max(rec.edge_latency_ms, rec.cloud_latency_ms)

\* a speculative request whose verify call did not bring a verify_response
VerifyFailed ==
    /\ inference.pc \in {"done", "raised"}
    /\ IsSpeculative(inference.plan.strategy)
    /\ inference.exchange.verify_sent
    /\ inference.exchange.reply # "verify_response"

\* C11 (as claimed): for a speculative request, any failure of the verify call
\* (a non-2xx status, an error-typed reply, an exception, a timeout) makes
\* process_inference return the edge draft with used_draft_verify = false,
\* raises nothing, and leaves a record with success = true.
C11_VerifyFailureFallsBackToDraft ==
    VerifyFailed =>
        /\ inference.pc = "done"
        /\ inference.result.text = DraftText
        /\ ~inference.result.used_draft_verify
        /\ Len(added) > 0
        /\ added[Len(added)].strategy = inference.plan.strategy
        /\ added[Len(added)].success

\* a CLOUD_DIRECT request whose cloud call did not bring a result
CloudDirectFailed ==
    /\ inference.pc \in {"done", "raised"}
    /\ inference.plan.strategy = CLOUD_DIRECT
    /\ inference.exchange.reply \in {"error", "exception"}

\* C12 (as claimed): for a CLOUD_DIRECT request, a non-2xx status, an error
\* reply, an exception or a timeout from the cloud never surfaces to the
\* caller: the request degrades to EDGE_ONLY and the response carries the
\* edge-generated text.
C12_CloudDirectFailureDegradesToEdge ==
    CloudDirectFailed =>
        /\ inference.pc = "done"
        /\ inference.result.text = DraftText
        /\ inference.result.edge_latency_ms > 0

\* a speculative execution whose draft scored below the plan's threshold, for
\* a request that asks for the confidence check
LowConfidenceDraft ==
    /\ inference.pc \in {"done", "raised"}
    /\ IsSpeculative(inference.plan.strategy)
    /\ use_confidence_check(inference.request)
    /\ inference.exchange.draft_confidence < inference.plan.confidence_threshold

\* C13 (as claimed): in a speculative execution, whenever use_confidence_check
\* is set and the draft's confidence score is below plan.confidence_threshold,
\* no verify request is sent to the cloud and the response is the draft text
\* with used_draft_verify = false and acceptance_rate = 0.
C13_LowConfidenceSkipsVerify ==
    LowConfidenceDraft =>
        /\ ~inference.exchange.verify_sent
        /\ inference.pc = "done"
        /\ inference.result.text = DraftText
        /\ ~inference.result.used_draft_verify
        /\ inference.result.acceptance_rate = 0

\* one step of a planned request through process_inference as the spec
\* orders it: executed and recorded (exactly one record is appended as the
\* response is assembled), then done (the response is returned and nothing
\* more is recorded)
PhaseStep ==
    /\ inference.pc = "executing" =>
          /\ inference'.pc = "done"
          /\ inference'.result.returned
          /\ Len(added') = Len(added) + 1
          /\ added'[Len(added')].strategy = inference.plan.strategy
    /\ inference.pc = "done" => inference'.pc = "idle" /\ added' = added

\* C14 (as claimed): every request accepted by process_inference moves
\* PLANNING, EXECUTING, RECORDING, DONE in that order: it returns a response
\* and appends exactly one ExecutionRecord before it is done, also when its
\* cloud call failed or returned an unexpected reply, and nothing is thrown to
\* the caller.
C14_RequestPhasesInOrder == [][PhaseStep]_vars

(***************************************************************************)
(* Properties of concurrent requests (checked under SpecConcurrent)        *)
(***************************************************************************)
\* C15: within a single request, draft generation completes before the
\* verify request is sent (the request is posted from a draft that is there),
\* the verify request is sent before its outcome is known, and the outcome is
\* known before the request's record is appended (the record is the one of
\* that outcome), under every interleaving with other requests.
C15_DraftBeforeVerifyBeforeRecord ==
    \A i \in DOMAIN requests :
        LET req == requests[i]
        IN  /\ req.posted # "none" => req.draft_ms # Null /\ req.posted = "with_draft"
            /\ (IsSpeculative(req.plan.strategy) /\ req.reply.kind # "none") =>
                   req.posted = "with_draft"
            /\ (IsSpeculative(req.plan.strategy) /\ req.phase = "done") =>
                   /\ req.reply.kind # "none"
                   /\ req.record_index \in 1..Len(added)
                   /\ added[req.record_index] =
                          inference_record(req.plan,
                              _execute_speculative(req.reply, req.draft_ms, req.round_trip_ms))

\* two speculative requests interleaved: one was recorded after its verify
\* outcome while the other, whose draft is done and whose verify request is
\* out, still waits for its reply
C15_Witness ==
    \E i, j \in DOMAIN requests :
        /\ i # j
        /\ IsSpeculative(requests[i].plan.strategy)
        /\ requests[i].phase = "done"
        /\ requests[i].reply.kind = "verify_response"
        /\ IsSpeculative(requests[j].plan.strategy)
        /\ current_step(requests[j]) = "verify_reply"
        /\ requests[j].posted = "with_draft"

(***************************************************************************)
(* Properties of the adaptive parameters as the planner sees them          *)
(* (checked under Spec)                                                    *)
(***************************************************************************)
\* a speculative plan returned by a decide call made after an adaptive update
SpeculativePlanAfterUpdate ==
    /\ CallReturned
    /\ call.loop = "none"
    /\ IsSpeculative(call.result.plan.strategy)
    /\ updates_applied >= 1

\* C16 (as claimed): after an adaptive update changes confidence_threshold or
\* draft_max_tokens, the next decide call builds its plan from the updated
\* values: the confidence_threshold and draft_max_tokens of the next
\* speculative plan are the updated ones.
C16_NextPlanReflectsUpdate ==
    SpeculativePlanAfterUpdate =>
        /\ config_confidence_threshold # initial_confidence_threshold =>
               call.result.plan.confidence_threshold = config_confidence_threshold
        /\ config_draft_max_tokens # initial_draft_max_tokens =>
               call.result.plan.draft_max_tokens = config_draft_max_tokens

\* a decide call that repeated the one before it, no adaptive update having
\* been applied since that one returned
RepeatedWithoutUpdate ==
    /\ call.phase = "done"
    /\ call.previous # NoResult
    /\ call.epoch = updates_applied

SpeculativeSamples ==
    Len(get_records_by_strategy(strategy_stats, SPECULATIVE_STANDARD, RecentWindow))
MeanAcceptance ==
    get_recent_acceptance_rate(strategy_stats, SPECULATIVE_STANDARD, RecentWindow)

\* the step of an update on at least 5 speculative records
ThresholdDirection ==
    (updates_applied' = updates_applied + 1 /\ SpeculativeSamples >= MinSamples) =>
        /\ MeanAcceptance > target_acceptance_max =>
               /\ config_confidence_threshold' >= threshold_min
               /\ \/ config_confidence_threshold' < config_confidence_threshold
                  \/ config_confidence_threshold = threshold_min
        /\ MeanAcceptance < target_acceptance_min =>
               /\ config_confidence_threshold' <= threshold_max
               /\ \/ config_confidence_threshold' > config_confidence_threshold
                  \/ config_confidence_threshold = threshold_max
        /\ (target_acceptance_min <= MeanAcceptance /\ MeanAcceptance <= target_acceptance_max) =>
               config_confidence_threshold' = config_confidence_threshold

\* 20 records of acceptance 0.95 were added and the threshold is 0.80
HighAcceptanceStart ==
    /\ updates_applied = 0
    /\ config_confidence_threshold = initial_confidence_threshold
    /\ Len(added) = RecentWindow
    /\ \A k \in 1..Len(added) : added[k].acceptance_rate = 9500

C19_FewSamplesSkipUpdate ==
    [][(updates_applied' = updates_applied + 1 /\ Len(history) < MinSamples) =>
           /\ config_confidence_threshold' = config_confidence_threshold
           /\ config_draft_max_tokens' = config_draft_max_tokens]_vars

(***************************************************************************)
(* Properties of the fallback plan (checked under Spec)                    *)
(***************************************************************************)
\* a decide call that left the pipeline by a fallback: every candidate scored
\* zero, or the pipeline raised
TookFallback ==
    /\ CallDone
    /\ call.loop = "none"
    /\ call.result.path \in {"all_zero", "exception"}

\* C20 (as claimed): when every candidate strategy scores zero, or when the
\* pipeline raises, decide returns a fallback plan whose strategy is
\* SPECULATIVE_STANDARD if the observed CPU usage is below 90% and
\* CLOUD_DIRECT otherwise.
C20_FallbackFollowsObservedCpu ==
    TookFallback =>
        /\ call.result.outcome = "returned"
        /\ call.result.plan.strategy =
               IF call.system_state.cpu_usage < 90 THEN SPECULATIVE_STANDARD
               ELSE CLOUD_DIRECT

(***************************************************************************)
(* Properties of the scorer and the planner (checked under Spec)           *)
(***************************************************************************)
\* the score 1.0 in the scale of the scorer (weights in percent)
UnitScore == 100 * SCALE

\* C21 (as claimed): for every strategy, decision context and history, the
\* total score produced by the scorer under the default weights (latency 0.4,
\* cost 0.3, quality 0.3), including the latency bonus applied to
\* priority >= 2 requests, lies in [0, 1].
C21_ScoresInUnitRange ==
    (CallDone /\ scoring_weights = DefaultWeights) =>
        \A k \in 1..Len(call.scored) :
            0 <= call.scored[k].score /\ call.scored[k].score <= UnitScore

\* decide on a module with an empty history and the default weights, for a
\* request with SLO 3000 ms and min quality 0.95 (default priority and privacy
\* level), CPU at 50% and a probed RTT of 15 ms
HighQualityGoodNetworkCall ==
    /\ CallDone
    /\ call.loop = "none"
    /\ added = <<>>
    /\ scoring_weights = DefaultWeights
    /\ CallRequirements = [present |-> TRUE, max_latency_ms |-> 3000,
                           min_quality_score |-> 9500, priority |-> 1, privacy_level |-> 0]
    /\ call.system_state = DefaultSystemStats
    /\ call.network_state = [present |-> TRUE, rtt_ms |-> 15, is_weak_network |-> FALSE]

\* C22 (as claimed): for a request with SLO 3000 ms and min quality 0.95, with
\* CPU at 50%, RTT 15 ms, an empty history and default configuration, decide
\* returns a cloud-touching strategy (CLOUD_DIRECT, SPECULATIVE_STANDARD or
\* ADAPTIVE_CONFIDENCE), never EDGE_ONLY.
C22_HighQualityGoesToCloud ==
    HighQualityGoodNetworkCall =>
        /\ call.result.outcome = "returned"
        /\ call.result.plan.strategy
               \in {CLOUD_DIRECT, SPECULATIVE_STANDARD, ADAPTIVE_CONFIDENCE}


(***************************************************************************)
(* Properties of the planner (checked under SpecPlanner)                   *)
(***************************************************************************)
PlannedCall == call.phase = "done" /\ call.result.path = "planned"
PlannedCap  == hardware_cap(call.result.plan.strategy, CallContext)

\* C23: for every strategy, device mode, latency objective and configuration
\* whose hardware caps are at least 1, the plan's draft_max_tokens is at least
\* 1 and never above the cap of the device mode for the strategy
C23_DraftTokensWithinCap ==
    PlannedCall =>
        /\ call.result.plan.draft_max_tokens >= 1
        /\ call.result.plan.draft_max_tokens <= PlannedCap


PlannedTokens   == call.result.plan.draft_max_tokens
PlannedStrategy == call.result.plan.strategy
PlannedOnGpu    == call.system_state.device_type = "gpu"

\* the stock sizes: 256 (GPU) / 128 (CPU) for EDGE_ONLY, and 96 (GPU) / 48
\* (CPU) for the speculative strategies when the objective is at least 1000 ms
StockSizes ==
    (PlannedCall /\ hardware_adaptive = DefaultHardwareAdaptive) =>
        /\ PlannedStrategy = EDGE_ONLY =>
              PlannedTokens = (IF PlannedOnGpu THEN 256 ELSE 128)
        /\ (IsSpeculative(PlannedStrategy) /\ CallRequirements.max_latency_ms >= 1000) =>
              PlannedTokens = (IF PlannedOnGpu THEN 96 ELSE 48)

\* C24 as stated: the stock sizes; and for a speculative strategy with any
\* configured cap, an objective below 500 ms gives at most 32 tokens and at
\* least a third of the cap, an objective in [500, 1000) gives 0.75 times the cap
C24_SizesAndCompression ==
    /\ StockSizes
    /\ (PlannedCall /\ IsSpeculative(PlannedStrategy)) =>
          /\ CallRequirements.max_latency_ms < 500 =>
                PlannedTokens <= 32 /\ 3 * PlannedTokens >= PlannedCap
          /\ (CallRequirements.max_latency_ms >= 500
                /\ CallRequirements.max_latency_ms < 1000) =>
                100 * PlannedTokens = 75 * PlannedCap

\* C24 amended: the stock sizes; and for a speculative strategy with any
\* configured cap, an objective below 500 ms gives at least the whole-number
\* third of the cap, at most 32 tokens while that third is at most 32 and
\* exactly that third otherwise, and never more than the cap; an objective in
\* [500, 1000) gives 0.75 times the cap rounded down to a whole number
C24_SizesAndCompressionRounded ==
    /\ StockSizes
    /\ (PlannedCall /\ IsSpeculative(PlannedStrategy)) =>
          /\ CallRequirements.max_latency_ms < 500 =>
                /\ PlannedTokens >= PlannedCap \div 3
                /\ PlannedTokens <= PlannedCap
                /\ PlannedCap \div 3 <= 32 => PlannedTokens <= 32
                /\ PlannedCap \div 3 > 32 => PlannedTokens = PlannedCap \div 3
          /\ (CallRequirements.max_latency_ms >= 500
                /\ CallRequirements.max_latency_ms < 1000) =>
                /\ 100 * PlannedTokens <= 75 * PlannedCap
                /\ 100 * (PlannedTokens + 1) > 75 * PlannedCap

\* a speculative plan under an objective below 500 ms whose cap's third
\* exceeds the clamp
C24_Witness ==
    /\ PlannedCall /\ PlannedStrategy = SPECULATIVE_STANDARD
    /\ CallRequirements.max_latency_ms = 499
    /\ PlannedCap = 100 /\ PlannedTokens = 33


(***************************************************************************)
(* Properties of the plan's confidence threshold (checked under Spec)      *)
(***************************************************************************)
\* the threshold the planner gives an ADAPTIVE_CONFIDENCE plan for the call's
\* context with only min_quality_score replaced by q
AdaptiveThresholdAtQuality(q) ==
    generate_plan(ADAPTIVE_CONFIDENCE,
                  [CallContext EXCEPT !.task_requirements.min_quality_score = q],
                  0, "").confidence_threshold

\* C25: every SPECULATIVE_STANDARD plan has confidence_threshold exactly 0.80,
\* for every request, system state and history, and the threshold of an
\* ADAPTIVE_CONFIDENCE plan does not decrease when only the request's
\* min_quality_score is raised
C25_FixedAndMonotoneThreshold ==
    CallReturned =>
        /\ call.result.plan.strategy = SPECULATIVE_STANDARD =>
              call.result.plan.confidence_threshold = 8000
        /\ call.result.plan.strategy = ADAPTIVE_CONFIDENCE =>
              \A q \in {5000, 6999, 7000, 8000, 9000, 9001, 9500, 10000} :
                  q >= CallRequirements.min_quality_score =>
                      AdaptiveThresholdAtQuality(q) >= call.result.plan.confidence_threshold

\* a SPECULATIVE_STANDARD plan for a quality demand above 0.9, after records
\* were added
C25_Witness ==
    /\ CallReturned /\ call.result.plan.strategy = SPECULATIVE_STANDARD
    /\ CallRequirements.min_quality_score > 9000
    /\ call.result.plan.confidence_threshold = 8000
    /\ history # <<>>


(***************************************************************************)
(* Properties of the draft verifier (checked under SpecVerifier)           *)
(***************************************************************************)
VerifyDone     == verification.pc = "done"
DraftUnits     == Len(verification.request.draft_tokens)
AcceptedDraft  ==
    Join(SubSeq(verification.request.draft_tokens, 1, verification.accepted_prefix))

\* t begins with p
BeginsWith(t, p) == Len(t) >= Len(p) /\ SubSeq(t, 1, Len(p)) = p

\* C26: for a draft of D > 0 units whose first k units are the longest common
\* prefix with the cloud continuation, verify_draft returns accepted_count = k,
\* acceptance_rate = k / D and a final_text that begins with prompt + D[:k]
C26_AcceptedCountIsCommonPrefix ==
    (VerifyDone /\ DraftUnits > 0) =>
        /\ verification.response.outcome = "returned"
        /\ verification.response.accepted_count = verification.accepted_prefix
        /\ verification.response.acceptance_rate =
              (verification.accepted_prefix * SCALE) \div DraftUnits
        /\ BeginsWith(verification.response.final_text,
                      verification.request.prompt \o AcceptedDraft)

\* C27: verifying an empty draft returns acceptance_rate = 1.0 and does not fail
C27_EmptyDraftFullyAccepted ==
    (VerifyDone /\ DraftUnits = 0) =>
        /\ verification.response.outcome = "returned"
        /\ verification.response.acceptance_rate = SCALE


(***************************************************************************)
(* Properties of the state monitors (checked under SpecMonitor)            *)
(***************************************************************************)
Probed == monitor.returned.method = "probe_network" /\ monitor.returned.fresh

\* C28: after any sequence of probe outcomes a failed probe (timeout or any
\* other error) returns is_weak_network = true with packet_loss_rate =
\* min(0.5, f/10), f the consecutive failures since the last successful probe;
\* a success resets f to 0; packet_loss_rate never exceeds 0.5
C28_FailedProbeLossRate ==
    Probed =>
        /\ monitor.returned.outcome # "ok" =>
              /\ monitor.returned.network.is_weak_network
              /\ monitor.returned.network.packet_loss_rate =
                    Min(5000, (monitor.probe_failure_count * SCALE) \div 10)
        /\ monitor.returned.outcome = "ok" => monitor.probe_failure_count = 0
        /\ monitor.returned.network.packet_loss_rate <= 5000

\* C29: both monitor samples are TTL-cached: a system-state sample requested
\* within 100 ms of the previous fresh sample, and a non-forced network probe
\* requested within 2 s of the previous fresh probe, return the cached value
\* without sampling or probing again; once the TTL has passed the next call
\* takes a fresh sample
C29_SamplesAreTtlCached ==
    /\ monitor.returned.method \in {"get_system_stats", "get_current_state"} =>
          (monitor.returned.fresh <=> ~monitor.returned.within_ttl)
    /\ (monitor.returned.method = "get_current_state" /\ ~monitor.returned.fresh) =>
          monitor.returned.system = monitor.last_system_state
    /\ (monitor.returned.method = "probe_network" /\ ~monitor.returned.force
          /\ ~monitor.simulation_mode) =>
          /\ monitor.returned.fresh <=> ~monitor.returned.within_ttl
          /\ ~monitor.returned.fresh =>
                monitor.returned.network = monitor.last_network_stats

\* C30: in simulation mode every probe_network call returns the injected RTT
\* and bandwidth, and, when the caller passed no explicit weak flag,
\* is_weak_network is true exactly when the injected RTT is above the
\* weak-network threshold (250 ms is weak, 100 ms is not)
C30_SimulatedProbeIsWeakAboveThreshold ==
    (monitor.returned.method = "probe_network" /\ monitor.simulation_mode) =>
        /\ ~monitor.returned.fresh
        /\ monitor.returned.network.rtt_ms = monitor.sim_net_stats.rtt_ms
        /\ monitor.returned.network.bandwidth_mbps = monitor.sim_net_stats.bandwidth_mbps
        /\ ~monitor.sim_is_weak_passed =>
              (monitor.returned.network.is_weak_network
                  <=> monitor.sim_net_stats.rtt_ms > weak_network_threshold)


(***************************************************************************)
(* Properties of the recent acceptance rate (checked under SpecHistory)    *)
(***************************************************************************)
\* the records of the strategy that carry an acceptance rate
MatchingRecords(strategy) ==
    SelectSeq(strategy_stats[strategy], LAMBDA r : IsSpeculative(r.strategy))

\* C31: get_recent_acceptance_rate(strategy, n) returns the mean acceptance
\* rate of the last n matching records when at least 5 matching samples
\* exist, and the default 0.8 whenever fewer than 5 matching samples exist
C31_RecentRateOrDefault ==
    \A strategy \in ExecutionStrategy, n \in {1, 3, 20} :
        get_recent_acceptance_rate(strategy_stats, strategy, n) =
            IF Len(MatchingRecords(strategy)) >= 5
            THEN Mean(SelectField(LastN(MatchingRecords(strategy), n), "acceptance_rate"))
            ELSE 8000


(***************************************************************************)
(* Properties of the draft-length update (checked under SpecUpdate)        *)
(***************************************************************************)
\* slo - mean latency of the recent SPECULATIVE_STANDARD records
LatencyMargin ==
    default_latency_slo - get_avg_latency(strategy_stats, SPECULATIVE_STANDARD, RecentWindow)
LatencyPressure == 10 * LatencyMargin < default_latency_slo
LatencySlack    == 2 * LatencyMargin > default_latency_slo

\* the draft length after an update is the one the three cases prescribe
DraftLengthStep ==
    updates_applied' = updates_applied + 1 =>
        /\ LatencyPressure =>
              config_draft_max_tokens' = Max(32, config_draft_max_tokens - 8)
        /\ LatencySlack =>
              config_draft_max_tokens' = Min(128, config_draft_max_tokens + 8)
        /\ (~LatencyPressure /\ ~LatencySlack) =>
              config_draft_max_tokens' = config_draft_max_tokens

\* the update never raises the length under pressure nor lowers it under slack
DraftLengthDirection ==
    updates_applied' = updates_applied + 1 =>
        /\ LatencyPressure => config_draft_max_tokens' <= config_draft_max_tokens
        /\ LatencySlack    => config_draft_max_tokens' >= config_draft_max_tokens

\* C32 as stated: the update decreases the length by 8 but never below 32
\* when the margin is under 10% of the SLO, increases it by 8 but never above
\* 128 when the margin is over 50%, leaves it unchanged otherwise; from any
\* starting length it never raises the length under pressure and never
\* lowers it under slack
C32_DraftLengthUpdate == [][DraftLengthStep /\ DraftLengthDirection]_vars

\* C32 amended: the same three cases; from any starting length between 32
\* and 128 the update never raises the length under pressure and never
\* lowers it under slack, and a length outside that range is moved to 32
\* (below) or to 128 (above) whatever the direction
C32_DraftLengthUpdateInRange ==
    [][/\ DraftLengthStep
       /\ (32 <= config_draft_max_tokens /\ config_draft_max_tokens <= 128)
             => DraftLengthDirection
       /\ (updates_applied' = updates_applied + 1 /\ LatencyPressure
             /\ config_draft_max_tokens < 32) => config_draft_max_tokens' = 32
       /\ (updates_applied' = updates_applied + 1 /\ LatencySlack
             /\ config_draft_max_tokens > 128) => config_draft_max_tokens' = 128]_vars

\* two updates under latency pressure (mean latency 140 of 150 ms) took the
\* length from 64 to 48
C32_Witness ==
    /\ updates_applied = 2
    /\ LatencyPressure
    /\ Len(strategy_stats[SPECULATIVE_STANDARD]) >= MinSamples
    /\ config_draft_max_tokens = 48


(***************************************************************************)
(* A failed probe as decide sees it (checked under SpecMonitor)            *)
(***************************************************************************)
\* the context _build_context_async builds from the value probe_network
\* returned, for a request that no other hard rule catches
ProbedContext ==
    DecisionContext(
        [requirements |-> [present |-> TRUE, max_latency_ms |-> 3000,
                           min_quality_score |-> 8000, priority |-> 1,
                           privacy_level |-> 0]],
        DefaultSystemStats,
        [present         |-> monitor.returned.network.present,
         rtt_ms          |-> monitor.returned.network.rtt_ms,
         is_weak_network |-> monitor.returned.network.is_weak_network])

FailedProbe == Probed /\ monitor.returned.outcome \in {"timeout", "error"}

\* C33: when the network probe fails during decide, the context is built
\* with network_state = none: the weak-network rule is not evaluated and no
\* RTT penalty is added to the latency estimates
C33_FailedProbeLeavesNoNetworkState ==
    FailedProbe =>
        /\ ~ProbedContext.network_state.present
        /\ check(ProbedContext) = NoDecision
        /\ \A strategy \in ExecutionStrategy :
               projected_latency(strategy, ProbedContext, strategy_stats)
                   = base_latency(strategy)


\* C34: the adaptive update fires exactly once per update_interval
\* executions: once k * update_interval execution records have been
\* appended to a fresh module, exactly k adaptive updates have been applied
C34_OneUpdatePerIntervalOfRecords ==
    (execution_count <= MaxAdaptiveCalls /\ Len(added) % update_interval = 0) =>
        updates_applied = Len(added) \div update_interval


(***************************************************************************)
(* The hard path does not depend on what the scorer reads                  *)
(***************************************************************************)
\* what scoring alone would choose for the call's context
BestScored(st, w) ==
    FirstMax(SelectSeq(score_strategies(CallContext, st, w), LAMBDA x : x.score > 0))

HardHitCall == call.phase = "done" /\ call.loop = "none" /\ call.hard.kind = "hit"

\* C35: when a hard constraint matches, the outcome of decide is the same
\* for every history and every scoring-weight setting, and a returned plan
\* carries the strategy and the reason of the matching rule
C35_HardPathIgnoresScoringInputs ==
    HardHitCall =>
        /\ \A recs \in HistoryCases, w \in WeightConfigs :
               decide("none", CallContext, Replay(recs).stats, w) = call.result
        /\ call.result.outcome = "returned" =>
               /\ call.result.path = "hard"
               /\ call.result.plan.strategy = call.hard.strategy
               /\ call.result.plan.reason = call.hard.reason

\* a privacy hit returned EDGE_ONLY although scoring the same context would
\* choose another strategy, and a different one under another history
C35_Witness ==
    /\ HardHitCall
    /\ call.result.outcome = "returned"
    /\ call.hard.reason = "privacy"
    /\ call.result.plan.strategy = EDGE_ONLY
    /\ BestScored(strategy_stats, scoring_weights).strategy # EDGE_ONLY
    /\ \E recs \in HistoryCases :
           BestScored(Replay(recs).stats, scoring_weights).strategy
               # BestScored(strategy_stats, scoring_weights).strategy


(***************************************************************************)
(* The global window and the per-strategy lists                            *)
(***************************************************************************)
\* the records of one strategy in the global window, oldest first
WindowRecords(strategy) == SelectSeq(history, LAMBDA r : r.strategy = strategy)

Occurrences(recs, rec) == Len(SelectSeq(recs, LAMBDA r : r = rec))

\* C36: add_record is atomic for concurrent readers: whenever a request is
\* accepted and scored, every per-strategy list holds exactly the records of
\* that strategy that are in the global history, no more and no fewer
C36_ScoringSeesConsistentHistory ==
    [][execution_count' # execution_count =>
           \A strategy \in ExecutionStrategy :
               strategy_stats[strategy] = WindowRecords(strategy)]_vars

\* C37: after any sequence of add_record calls every record held in a
\* per-strategy list is also in the global sliding window, and the
\* per-strategy counts of get_statistics_summary sum to total_records
C37_StrategyListsWithinWindow ==
    /\ \A strategy \in ExecutionStrategy :
           \A i \in DOMAIN strategy_stats[strategy] :
               Occurrences(strategy_stats[strategy], strategy_stats[strategy][i])
                   <= Occurrences(history, strategy_stats[strategy][i])
    /\ Len(strategy_stats[EDGE_ONLY]) + Len(strategy_stats[CLOUD_DIRECT])
           + Len(strategy_stats[SPECULATIVE_STANDARD])
           + Len(strategy_stats[ADAPTIVE_CONFIDENCE]) = Len(history)


\* C38: the strategy stored in a request's ExecutionRecord is the strategy
\* that produced the response text: the record of a response carrying the
\* edge draft is an EDGE_ONLY record, that of a text generated by the cloud a
\* CLOUD_DIRECT record, that of a verified text a speculative record
C38_RecordedStrategyProducedText ==
    (inference.pc = "done" /\ added # <<>>) =>
        LET recorded == added[Len(added)].strategy
        IN  /\ inference.result.text = DraftText    => recorded = EDGE_ONLY
            /\ inference.result.text = CloudText    => recorded = CLOUD_DIRECT
            /\ inference.result.text = VerifiedText => IsSpeculative(recorded)


(***************************************************************************)
(* The threshold under a constant acceptance rate (checked under           *)
(* SpecSteady)                                                             *)
(***************************************************************************)
AboveBand == SpeculativeSamples >= MinSamples /\ MeanAcceptance > target_acceptance_max
BelowBand == SpeculativeSamples >= MinSamples /\ MeanAcceptance < target_acceptance_min

\* an update never moves the threshold against the side the rate is on, and
\* leaves a threshold that sits on that side's bound where it is
SteadyStep ==
    /\ AboveBand => /\ config_confidence_threshold' <= config_confidence_threshold
                    /\ config_confidence_threshold = threshold_min =>
                           config_confidence_threshold' = threshold_min
    /\ BelowBand => /\ config_confidence_threshold' >= config_confidence_threshold
                    /\ config_confidence_threshold = threshold_max =>
                           config_confidence_threshold' = threshold_max
    /\ (~AboveBand /\ ~BelowBand) =>
           config_confidence_threshold' = config_confidence_threshold

\* C39: while the mean acceptance rate of the recent speculative records (at
\* least 5) stays above the target band, confidence_threshold is
\* non-increasing from update to update, eventually reaches threshold_min and
\* stays there; while it stays below the band the threshold rises to
\* threshold_max and stays; under a constant rate it never turns back
C39_ThresholdSettlesAtBound ==
    /\ [][SteadyStep]_vars
    /\ AboveBand => <>[](config_confidence_threshold = threshold_min)
    /\ BelowBand => <>[](config_confidence_threshold = threshold_max)

\* 181 updates on 20 records of acceptance 0.95: the threshold, 0.95 at the
\* start, came down by 0.0025 per update and sits on threshold_min
C39_Witness ==
    /\ updates_applied = 181
    /\ AboveBand
    /\ MeanAcceptance = 9500
    /\ config_confidence_threshold = threshold_min


(***************************************************************************)
(* Properties of the block allocation (checked under SpecKVCache)          *)
(***************************************************************************)
\* C40: every allocate_blocks call for num_blocks <= max_blocks terminates
\* without waiting for its own lock, returns num_blocks distinct block ids
\* and leaves the block table with at most max_blocks entries
C40_AllocateBlocksTerminates ==
    (kv_cache.call.state # "none" /\ kv_cache.call.num_blocks <= max_blocks) =>
        /\ kv_cache.call.state = "returned"
        /\ kv_cache.lock = "free"
        /\ Len(kv_cache.call.allocated_blocks) = kv_cache.call.num_blocks
        /\ \A i, j \in DOMAIN kv_cache.call.allocated_blocks :
               i # j => kv_cache.call.allocated_blocks[i] # kv_cache.call.allocated_blocks[j]
        /\ Cardinality(kv_cache.block_table) <= max_blocks

====
